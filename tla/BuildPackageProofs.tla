--------------------------- MODULE BuildPackageProofs ---------------------------
(***************************************************************************)
(* Proofs about BuildPackage, for any number of rungs, of subtitle tracks, *)
(* files and fonts, and of failing tools.                                  *)
(***************************************************************************)
EXTENDS BuildPackage, FiniteSetTheorems, SequenceTheorems, TLAPS

-----------------------------------------------------------------------------
(* The inductive invariant *)

\* The steps that come after the named one.
Unextracted == {"transmux", "lift", "rungs", "together", "alone"}
Extracted == {"styled", "vobsubs", "setup", "entries"}
Checked   == {"verify", "placed"}
Texted    == {"trickplay"} \cup Checked
Boxed     == {"text"} \cup Texted
Packaged  == {"hdr10"} \cup Boxed
Fonted    == {"media"} \cup Packaged
Entered   == {"convert", "fonts"} \cup Fonted

\* What is in the folder under a name holds what it should, and is there unless
\* a tool lied.
Holds(f, good) ==
    /\ f \in DOMAIN files => files[f] \in good
    /\ ~lied => f \in DOMAIN files

\* It is there, and holds that.
Is(f, content) == f \in DOMAIN files /\ files[f] = content

\* The run ends for a file that is missing only where a tool lied.
EndFits ==
    /\ pc # "failed" => why = ""
    /\ why = "missing" => lied
    /\ pc \in Unextracted => ~lied
    /\ pc \notin Checked \cup {"failed"} => sheets = 0
    /\ pc = "placed" => NamedSides \cup Named \subseteq DOMAIN files

\* The files of track i of the source: a VobSub's two may both be cut short.
Whose(i) == IF src.subs[i] = "vobsub" THEN Pair(i) ELSE {Sidecar(i)}
Contents(i, short) == {<<"whole", i>>} \cup (IF short THEN {<<"part", i>>} ELSE {})

\* The tracks said to be extracted are, each to its own files; a script may be
\* empty until it is looked at.
TracksFit ==
    /\ pc \in Extracted =>
        /\ written \subseteq Tracks \ Of({"dvb"})
        /\ \A i \in written : \A f \in Whose(i) : Holds(f, Contents(i, src.subs[i] = "vobsub"))
    /\ pc \in {"styled", "vobsubs"} => written \subseteq OnePass
    /\ pc \in Extracted \ {"styled"} =>
        /\ styled \subseteq written \cap Of({"ass"})
        /\ \A i \in styled : Is(Script(i), <<"whole", i>>)
                             \/ (pc # "entries" /\ Is(Script(i), <<"empty", i>>))

\* A subtitle of the manifest.
Subtitle == [n : Nat, format : {"vtt", "sup", "idx"}, styled : BOOLEAN, hls : BOOLEAN]

\* What the manifest says of the subtitles is so.
EntriesFit ==
    pc \in Entered => \A e \in entries :
        /\ e \in Subtitle
        /\ pc = "convert" => e.n \in Tracks
        /\ \A f \in Sides(e) : Holds(f, Contents(e.n, e.format = "idx"))
        /\ e.styled => Is(Script(e.n), <<"whole", e.n>>)

\* ... and of the fonts,
FontsFit == pc \in Fonted =>
    \A i \in fonts : Is(Font(i, fonts), <<"whole", i>>)

\* ... of the rungs and the stereo,
MediaFits ==
    /\ audio \in {"whole", "lifted"}
    /\ pc \in Packaged => Is(Stereo, <<audio, 1>>)
    /\ pc = "hdr10" => \A r \in staged : Is(Rung(r), <<"whole", r>>)
    /\ pc \in Boxed =>
        /\ \A r \in staged : Is(Rung(r), <<IF r \in boxed THEN "boxed" ELSE "whole", r>>)
        /\ boxed \in {{}, {r \in staged : src.rungs[r] = "pq"}}

\* ... of what the master names,
TextFits == pc \in Texted =>
    /\ Is(Master, <<"whole", 1>>)
    /\ \A e \in entries : e.hls => Is(Text(e.n), <<"whole", e.n>>)

\* ... and of trickplay.
SheetsFit == pc \in Checked /\ sheets > 0 =>
    /\ Is(Vtt, <<"whole", 0>>)
    /\ \A x \in 1..sheets : Is(Sprite(x), <<"whole", x>>)

IInv ==
    /\ src \in Sources /\ pc \in Steps /\ lied \in BOOLEAN /\ sheets \in Nat
    /\ EndFits /\ TracksFit /\ EntriesFit /\ FontsFit /\ MediaFits /\ TextFits /\ SheetsFit

-----------------------------------------------------------------------------
(* Operators *)

\* The source's tracks and files are of the codecs and scripts of the model.
LEMMA SourceTyped ==
    ASSUME src \in Sources
    PROVE  /\ Len(src.subs) \in Nat /\ Len(src.beside) \in Nat
           /\ \A i \in Tracks : src.subs[i] \in {"text", "ass", "pgs", "vobsub", "dvb"}
<1>1. PICK m \in 0..MaxTracks : src.subs \in [1..m -> Codecs]
  BY DEF Sources, UpTo
<1>2. PICK n \in 0..MaxTracks : src.beside \in [1..n -> Scripts]
  BY DEF Sources, UpTo
<1>3. src.subs \in Seq(Codecs) /\ src.beside \in Seq(Scripts)
  BY <1>1, <1>2, BuildAssumption, SeqDef
<1>4. Len(src.subs) \in Nat /\ Len(src.beside) \in Nat
  BY <1>3, LenProperties
<1>5. \A i \in Tracks : src.subs[i] \in Codecs
  BY <1>3, ElementOfSeq DEF Tracks
<1> QED BY <1>4, <1>5, BuildAssumption

\* The file of each kind of track.
LEMMA Formats ==
    ASSUME src \in Sources, NEW i \in Tracks
    PROVE  /\ i \in Of({"text", "ass"}) => Sidecar(i) = <<"sub", i, "vtt">>
           /\ i \in Of({"pgs"}) => Sidecar(i) = <<"sub", i, "sup">>
           /\ i \in Of({"vobsub"}) => Sidecar(i) = <<"sub", i, "idx">>
           /\ i \in Of({"dvb"}) => Sidecar(i) = <<"sub", i, "dvb">>
           /\ i \in Of({"text", "ass"}) \/ i \in Of({"pgs"}) \/ i \in Of({"vobsub"})
              \/ i \in Of({"dvb"})
BY SourceTyped DEF Of, Sidecar, Format

\* What is in the folder of the kinds of files a step does not write.
Stays(kind) == \A f : f[1] = kind =>
    /\ f \in DOMAIN files' <=> f \in DOMAIN files
    /\ f \in DOMAIN files => files'[f] = files[f]

LEMMA WithStays ==
    ASSUME NEW new, files' = With(new), NEW kind, \A f \in DOMAIN new : f[1] # kind
    PROVE  Stays(kind)
BY DEF With, Stays

LEMMA WithIs ==
    ASSUME NEW new, files' = With(new)
    PROVE  /\ \A f \in DOMAIN new : f \in DOMAIN files' /\ files'[f] = new[f]
           /\ \A f : f \notin DOMAIN new => /\ f \in DOMAIN files' <=> f \in DOMAIN files
                                            /\ f \in DOMAIN files => files'[f] = files[f]
BY DEF With

\* Two fonts kept have two numbers.
LEMMA FontsDiffer ==
    ASSUME NEW kept, NEW n \in Nat, kept \subseteq 1..n, NEW i \in kept, NEW j \in kept,
           Font(i, kept) = Font(j, kept)
    PROVE  i = j
<1> DEFINE Upto(k) == {x \in kept : x <= k}
<1>1. \A k : IsFiniteSet(Upto(k))
  <2>1. IsFiniteSet(1..n)
    BY FS_Interval
  <2>2. \A k : Upto(k) \in SUBSET (1..n)
    OBVIOUS
  <2> QED BY <2>1, <2>2, FS_Subset
<1>2. ASSUME NEW a \in kept, NEW b \in kept, a < b
      PROVE  Cardinality(Upto(a)) # Cardinality(Upto(b))
  <2>1. \A x \in kept : x \in Nat
    OBVIOUS
  <2>2. (\A x \in kept : x <= a => x <= b) /\ b <= b /\ ~(b <= a)
    BY <1>2, <2>1
  <2>3. Upto(a) \subseteq Upto(b) /\ b \notin Upto(a) /\ b \in Upto(b)
    BY <2>2, Zenon
  <2>4. Upto(a) # Upto(b)
    BY <2>3
  <2> HIDE DEF Upto
  <2>5. IsFiniteSet(Upto(b)) /\ Upto(a) \in SUBSET Upto(b)
    BY <1>1, <2>3
  <2> QED BY <2>4, <2>5, FS_Subset, Zenon
<1>3. Cardinality(Upto(i)) = Cardinality(Upto(j))
  BY DEF Font
<1> HIDE DEF Upto
<1>4. i \in Nat /\ j \in Nat
  OBVIOUS
<1> QED BY <1>2, <1>3, <1>4

\* The files a subtitle is named with.
LEMMA SidesAreSubs == \A e : \A f \in Sides(e) : f[1] = "sub"
BY DEF Sides

\* What is not a member is marked as none.
LEMMA NotIn ==
    ASSUME NEW S, NEW x, x \notin S
    PROVE  (x \in S) = FALSE
OBVIOUS

-----------------------------------------------------------------------------
(* What a step leaves as it is *)

\* The manifest's subtitles, where no file of one is written,
LEMMA EntriesStay ==
    ASSUME EntriesFit, pc \in Entered, pc' # "convert", Stays("sub"),
           UNCHANGED <<lied, entries>>
    PROVE  EntriesFit'
<1>1. \A i : Stays("sub") /\ Script(i)[1] = "sub"
  BY DEF Script
<1>2. \A e \in entries : /\ \A f \in Sides(e) : Holds(f, Contents(e.n, e.format = "idx"))'
                         /\ e.styled => Is(Script(e.n), <<"whole", e.n>>)'
  BY <1>1, SidesAreSubs DEF EntriesFit, Stays, Holds, Is
<1> QED BY <1>2 DEF EntriesFit

\* ... its fonts,
LEMMA FontsStay ==
    ASSUME FontsFit, pc \in Fonted, Stays("font"), UNCHANGED fonts
    PROVE  FontsFit'
BY DEF FontsFit, Stays, Is, Font

\* ... the rungs and the stereo,
LEMMA MediaStays ==
    ASSUME MediaFits, pc \in Boxed, pc' # "hdr10", Stays("rung"), Stays("audio"),
           UNCHANGED <<src, audio, staged, boxed>>
    PROVE  MediaFits'
BY DEF MediaFits, Packaged, Stays, Is, Rung, Stereo

\* ... what the master names,
LEMMA TextStays ==
    ASSUME TextFits, pc \in Texted, Stays("master"), Stays("text"), UNCHANGED entries
    PROVE  TextFits'
BY DEF TextFits, Stays, Is, Master, Text

-----------------------------------------------------------------------------
(* The source's tracks *)

\* The source stays as it is.
LEMMA SourceSame ==
    ASSUME UNCHANGED src
    PROVE  /\ Tracks' = Tracks /\ OnePass' = OnePass
           /\ \A S : Of(S)' = Of(S)
           /\ \A i : Whose(i)' = Whose(i) /\ Sidecar(i)' = Sidecar(i)
BY DEF Tracks, Of, OnePass, Whose, Sidecar, Pair

\* The files of a track that one run of ffmpeg extracts.
LEMMA OnePassFile ==
    ASSUME src \in Sources, NEW i \in OnePass
    PROVE  /\ i \in Tracks \ Of({"dvb"}) /\ src.subs[i] # "vobsub"
           /\ Whose(i) = {Sidecar(i)}
           /\ Sidecar(i)[1] = "sub" /\ Sidecar(i)[2] = i /\ \A j : Sidecar(i) # Script(j)
<1>1. i \in Tracks /\ src.subs[i] \in {"text", "ass", "pgs"}
  BY DEF OnePass, Of
<1>2. Sidecar(i) \in {<<"sub", i, "vtt">>, <<"sub", i, "sup">>}
  BY <1>1, Formats DEF Of
<1> QED BY <1>1, <1>2 DEF Whose, Of, Script

\* ... and of one mkvextract does.
LEMMA PairFiles ==
    ASSUME NEW i \in Of({"vobsub"})
    PROVE  /\ i \in Tracks \ Of({"dvb"}) /\ i \notin OnePass /\ src.subs[i] = "vobsub"
           /\ Whose(i) = Pair(i)
           /\ \A f \in Pair(i) : f[1] = "sub" /\ f[2] = i /\ \A j : f # Script(j)
<1>1. i \in Tracks /\ src.subs[i] = "vobsub"
  BY DEF Of
<1> QED BY <1>1 DEF Whose, Of, OnePass, Pair, Script

\* The steps before the tracks are extracted.
LEMMA EarlyFits ==
    ASSUME IInv, Transmux \/ LiftStereo \/ RemuxRungs
    PROVE  IInv'
<1> USE DEF media, tracks, manifest, Goto, Fail
<1>1. /\ pc \in Unextracted /\ pc' \in {"lift", "rungs", "together", "failed"}
      /\ UNCHANGED <<src, files, written, styled, lied, sheets>>
      /\ pc' # "failed" => why' = why
      /\ pc' = "failed" => why' = "transmux"
  BY DEF Transmux, LiftStereo, RemuxRungs, Unextracted
<1>2. audio' \in {"whole", "lifted"}
  BY DEF Transmux, LiftStereo, RemuxRungs, LiftTaken, IInv, MediaFits
<1>3. EndFits'
  BY <1>1 DEF IInv, EndFits, Unextracted, Checked
<1>4. TracksFit' /\ EntriesFit' /\ FontsFit' /\ TextFits' /\ SheetsFit'
  BY <1>1 DEF TracksFit, EntriesFit, FontsFit, TextFits, SheetsFit, Extracted, Entered, Fonted,
              Packaged, Boxed, Texted, Checked
<1>5. MediaFits'
  BY <1>1, <1>2 DEF MediaFits, Packaged, Boxed, Texted, Checked
<1> QED BY <1>1, <1>3, <1>4, <1>5 DEF IInv, Steps

\* A step that extracts goes to one of the next, and names nothing yet.
LEMMA OnlyTracks ==
    ASSUME IInv, pc \in Unextracted \cup Extracted, pc' \in Extracted \cup {"alone", "failed"},
           UNCHANGED <<src, audio, sheets>>, lied' \in BOOLEAN,
           pc' # "failed" => why' = why,
           pc' = "failed" => why' # "missing" \/ lied',
           pc' = "alone" => ~lied',
           TracksFit'
    PROVE  IInv'
<1>1. EndFits'
  BY DEF IInv, EndFits, Unextracted, Extracted, Checked
<1>2. EntriesFit' /\ FontsFit' /\ TextFits' /\ SheetsFit'
  BY DEF EntriesFit, FontsFit, TextFits, SheetsFit, Extracted, Entered, Fonted, Packaged, Boxed,
         Texted, Checked
<1>3. MediaFits'
  BY DEF IInv, MediaFits, Extracted, Packaged, Boxed, Texted, Checked
<1>4. pc' \in Steps
  BY DEF Steps, Extracted
<1> QED BY <1>1, <1>2, <1>3, <1>4 DEF IInv

LEMMA TogetherFits ==
    ASSUME IInv, ExtractTogether
    PROVE  IInv'
<1> USE DEF media, tracks, manifest, Goto, Fail
<1>1. /\ pc = "together" /\ pc' \in {"alone", "vobsubs", "failed"}
      /\ UNCHANGED <<src, audio, sheets, lied>>
      /\ pc' # "failed" => why' = why
      /\ pc' = "failed" => why' = "timeout"
  BY DEF ExtractTogether
<1>2. lied' \in BOOLEAN /\ ~lied'
  BY <1>1 DEF IInv, EndFits, Unextracted, Checked
<1>3. TracksFit'
  <2>1. CASE pc' # "vobsubs"
    BY <1>1, <2>1 DEF TracksFit, Extracted
  <2>2. CASE pc' = "vobsubs"
    <3>1. PICK empty \in SUBSET (OnePass \cap Of({"ass"})) :
            files' = [f \in Outputs |->
                        <<IF f \in ScriptsOf(empty) THEN "empty" ELSE "whole", f[2]>>]
      BY <2>2 DEF ExtractTogether
    <3>2. written' = OnePass /\ styled' = OnePass \cap Of({"ass"})
      BY <2>2 DEF ExtractTogether
    <3>3. ASSUME NEW i \in OnePass
          PROVE  Sidecar(i) \in DOMAIN files' /\ files'[Sidecar(i)] = <<"whole", i>>
      <4>1. Sidecar(i) \in Outputs
        BY DEF Outputs, Sidecars
      <4>2. Sidecar(i) \notin ScriptsOf(empty) /\ Sidecar(i)[2] = i
        BY OnePassFile DEF ScriptsOf, IInv
      <4> QED BY <3>1, <4>1, <4>2
    <3>4. ASSUME NEW i \in OnePass \cap Of({"ass"})
          PROVE  /\ Script(i) \in DOMAIN files'
                 /\ files'[Script(i)] \in {<<"whole", i>>, <<"empty", i>>}
      <4>1. Script(i) \in Outputs /\ Script(i)[2] = i
        BY DEF Outputs, ScriptsOf, Script
      <4> QED BY <3>1, <4>1
    <3>5. \A i \in OnePass : /\ i \in Tracks \ Of({"dvb"}) /\ src.subs[i] # "vobsub"
                             /\ Whose(i) = {Sidecar(i)}
      BY OnePassFile DEF IInv
    <3>6. \A i \in written' : \A f \in Whose(i)' :
            Holds(f, Contents(i, src.subs[i] = "vobsub"))'
      BY <1>1, <3>2, <3>3, <3>5, SourceSame DEF Holds, Contents
    <3> QED BY <1>1, <2>2, <3>2, <3>4, <3>5, <3>6, SourceSame DEF TracksFit, Is, Extracted
  <2> QED BY <2>1, <2>2
<1> QED BY <1>1, <1>2, <1>3, OnlyTracks DEF Extracted, Unextracted

LEMMA AloneFits ==
    ASSUME IInv, ExtractAlone
    PROVE  IInv'
<1> USE DEF media, tracks, manifest, Goto
<1>1. /\ pc = "alone" /\ pc' = "styled"
      /\ UNCHANGED <<src, audio, sheets, why>>
  BY DEF ExtractAlone
<1>2. PICK o \in Outcome(OnePass, {"done"}, {"fail", "kill", "lie"}) :
        /\ written' = Who(o, {"done", "lie"})
        /\ lied' = (Who(o, {"lie"}) # {})
        /\ files' = [f \in Sidecars(Who(o, {"done", "fail"})) |->
                        <<IF o[f[2]] = "done" THEN "whole" ELSE "part", f[2]>>]
  BY DEF ExtractAlone
<1>3. DOMAIN o = OnePass /\ \A i \in OnePass : o[i] \in {"done", "fail", "kill", "lie"}
  BY DEF Outcome
<1>4. ~lied' => \A i \in OnePass : o[i] # "lie"
  BY <1>2, <1>3 DEF Who
<1>5. \A i \in OnePass : /\ i \in Tracks \ Of({"dvb"}) /\ src.subs[i] # "vobsub"
                         /\ Whose(i) = {Sidecar(i)} /\ Sidecar(i)[2] = i
  BY OnePassFile DEF IInv
<1>6. ASSUME NEW i \in written'
      PROVE  /\ i \in OnePass /\ o[i] \in {"done", "lie"}
             /\ Sidecar(i) \in DOMAIN files' => files'[Sidecar(i)] = <<"whole", i>>
             /\ ~lied' => Sidecar(i) \in DOMAIN files'
  <2>1. i \in OnePass /\ o[i] \in {"done", "lie"}
    BY <1>2, <1>3, <1>6 DEF Who
  <2>2. ASSUME Sidecar(i) \in DOMAIN files'
        PROVE  files'[Sidecar(i)] = <<"whole", i>>
    <3>1. PICK j \in Who(o, {"done", "fail"}) : Sidecar(i) = Sidecar(j)
      BY <1>2, <2>2 DEF Sidecars
    <3>2. j = i
      BY <1>3, <1>5, <2>1, <3>1 DEF Who
    <3>3. o[i] = "done"
      BY <1>3, <2>1, <3>2 DEF Who
    <3> QED BY <1>2, <1>5, <2>1, <2>2, <3>3
  <2>3. ASSUME ~lied' PROVE Sidecar(i) \in DOMAIN files'
    <3>1. o[i] = "done"
      BY <1>4, <2>1, <2>3
    <3>2. i \in Who(o, {"done", "fail"})
      BY <1>3, <2>1, <3>1 DEF Who
    <3> QED BY <1>2, <3>2 DEF Sidecars
  <2> QED BY <2>1, <2>2, <2>3
<1>7. written' \subseteq OnePass
  BY <1>6
<1>8. ASSUME NEW i \in written', NEW f \in Whose(i)'
      PROVE  Holds(f, Contents(i, src.subs[i] = "vobsub"))'
  <2>1. f = Sidecar(i)
    BY <1>1, <1>5, <1>7, SourceSame
  <2> QED BY <1>6, <2>1 DEF Holds, Contents
<1>9. TracksFit'
  BY <1>1, <1>5, <1>7, <1>8, SourceSame DEF TracksFit, Extracted
<1>10. lied' \in BOOLEAN
  BY <1>2, Zenon
<1> QED BY <1>1, <1>9, <1>10, OnlyTracks DEF Extracted, Unextracted

\* A step that writes scripts or more tracks leaves those it does not write.
LEMMA TracksStay ==
    ASSUME IInv, pc \in Extracted, UNCHANGED <<src, lied>>,
           NEW i \in written,
           \A f \in Whose(i) : /\ f \in DOMAIN files' <=> f \in DOMAIN files
                               /\ f \in DOMAIN files => files'[f] = files[f]
    PROVE  \A f \in Whose(i)' : Holds(f, Contents(i, src.subs[i] = "vobsub"))'
<1>1. \A f \in Whose(i) : Holds(f, Contents(i, src.subs[i] = "vobsub"))
  BY DEF IInv, TracksFit
<1>2. Whose(i)' = Whose(i)
  BY SourceSame
<1> QED BY <1>1, <1>2 DEF Holds, Contents

LEMMA StyledFits ==
    ASSUME IInv, ExtractStyled
    PROVE  IInv'
<1> USE DEF media, manifest, Goto
<1>1. /\ pc = "styled" /\ pc' = "vobsubs"
      /\ UNCHANGED <<src, written, audio, sheets, why, lied>>
  BY DEF ExtractStyled
<1>2. PICK o \in Outcome(written \cap Of({"ass"}), {"done"}, {"fail", "empty"}) :
        /\ styled' = ScriptsKept(o)
        /\ files' = With([f \in ScriptsOf(ScriptsKept(o)) |->
               <<CASE o[f[2]] = "done" -> "whole" [] o[f[2]] = "empty" -> "empty"
                   [] OTHER -> "part", f[2]>>])
  BY DEF ExtractStyled
<1>3. /\ DOMAIN o = written \cap Of({"ass"})
      /\ styled' = {i \in written \cap Of({"ass"}) : o[i] \in {"done", "empty"}}
  BY <1>2 DEF Outcome, ScriptsKept, Who
<1> DEFINE new == [f \in ScriptsOf(ScriptsKept(o)) |->
               <<CASE o[f[2]] = "done" -> "whole" [] o[f[2]] = "empty" -> "empty"
                   [] OTHER -> "part", f[2]>>]
<1>4. DOMAIN new = ScriptsOf(styled') /\ files' = With(new)
  BY <1>2
<1>5. ASSUME NEW i \in styled'
      PROVE  Script(i) \in DOMAIN new /\ new[Script(i)] \in {<<"whole", i>>, <<"empty", i>>}
  <2>1. Script(i)[2] = i
    BY DEF Script
  <2>2. Script(i) \in DOMAIN new
    BY <1>4 DEF ScriptsOf
  <2> QED BY <1>3, <2>1, <2>2
<1> HIDE DEF new
<1>6. \A i \in styled' : Is(Script(i), <<"whole", i>>)' \/ Is(Script(i), <<"empty", i>>)'
  BY <1>4, <1>5, WithIs DEF Is
<1>7. written \subseteq OnePass /\ written \subseteq Tracks \ Of({"dvb"})
  BY <1>1 DEF IInv, TracksFit, Extracted
<1>8. \A i \in written : \A f \in Whose(i) : f \notin DOMAIN new
  BY <1>4, <1>7, OnePassFile DEF IInv, ScriptsOf
<1>9. ASSUME NEW i \in written
      PROVE  \A f \in Whose(i)' : Holds(f, Contents(i, src.subs[i] = "vobsub"))'
  BY <1>1, <1>4, <1>8, WithIs, TracksStay DEF Extracted
<1>10. TracksFit'
  BY <1>1, <1>3, <1>6, <1>7, <1>9, SourceSame DEF TracksFit, Extracted
<1> QED BY <1>1, <1>10, OnlyTracks DEF Extracted, IInv

LEMMA VobsubsFit ==
    ASSUME IInv, ExtractVobsubs
    PROVE  IInv'
<1> USE DEF media, manifest, Goto
<1>1. /\ pc = "vobsubs" /\ pc' = "setup"
      /\ UNCHANGED <<src, styled, audio, sheets, why, lied>>
  BY DEF ExtractVobsubs
<1>2. PICK o \in Outcome(Of({"vobsub"}), {"done", "unlisted"}, {"fail", "short"}) :
        /\ written' = written \cup Who(o, {"done", "short"})
        /\ files' = With([f \in UNION {Pair(i) : i \in Who(o, {"done", "short"})} |->
                             <<IF o[f[2]] = "done" THEN "whole" ELSE "part", f[2]>>])
  BY DEF ExtractVobsubs
<1> DEFINE W == Who(o, {"done", "short"})
           new == [f \in UNION {Pair(i) : i \in W} |->
                      <<IF o[f[2]] = "done" THEN "whole" ELSE "part", f[2]>>]
<1>3. W \subseteq Of({"vobsub"})
  BY DEF Outcome, Who
<1>4. written' = written \cup W /\ files' = With(new) /\ DOMAIN new = UNION {Pair(i) : i \in W}
  BY <1>2
<1>5. ASSUME NEW i \in W, NEW f \in Pair(i)
      PROVE  f \in DOMAIN new /\ new[f] \in {<<"whole", i>>, <<"part", i>>}
  <2>1. f[2] = i
    BY DEF Pair
  <2> QED BY <1>4, <2>1
<1> HIDE DEF W, new
<1>6. written \subseteq OnePass /\ written \subseteq Tracks \ Of({"dvb"})
      /\ styled \subseteq written \cap Of({"ass"})
      /\ \A i \in styled : Is(Script(i), <<"whole", i>>) \/ Is(Script(i), <<"empty", i>>)
  BY <1>1 DEF IInv, TracksFit, Extracted
<1>7. \A f \in DOMAIN new : f[1] = "sub" /\ f[2] \notin OnePass /\ \A j : f # Script(j)
  BY <1>3, <1>4, PairFiles
<1>8. ASSUME NEW i \in written
      PROVE  \A f \in Whose(i)' : Holds(f, Contents(i, src.subs[i] = "vobsub"))'
  <2>1. \A f \in Whose(i) : f \notin DOMAIN new
    BY <1>6, <1>7, OnePassFile DEF IInv
  <2> QED BY <1>1, <1>4, <2>1, WithIs, TracksStay DEF Extracted
<1>9. ASSUME NEW i \in W, NEW f \in Whose(i)'
      PROVE  Holds(f, Contents(i, src.subs[i] = "vobsub"))'
  <2>1. f \in Pair(i) /\ src'.subs[i] = "vobsub"
    BY <1>1, <1>3, PairFiles, SourceSame
  <2> QED BY <1>4, <1>5, <2>1, WithIs DEF Holds, Contents
<1>10. \A i \in styled : Is(Script(i), <<"whole", i>>)' \/ Is(Script(i), <<"empty", i>>)'
  BY <1>4, <1>6, <1>7, WithIs DEF Is
<1>11. W \subseteq Tracks \ Of({"dvb"})
  BY <1>3, PairFiles
<1>12. TracksFit'
  BY <1>1, <1>4, <1>6, <1>8, <1>9, <1>10, <1>11, SourceSame DEF TracksFit, Extracted
<1> QED BY <1>1, <1>12, OnlyTracks DEF Extracted, IInv

LEMMA SetupFits ==
    ASSUME IInv, SetupFails
    PROVE  IInv'
<1> USE DEF media, manifest, Goto
<1> DEFINE dropped == {i \in styled : i \notin written \/ Script(i) \notin DOMAIN files
                                        \/ files[Script(i)][1] = "empty"}
<1>1. /\ pc = "setup" /\ pc' = "entries"
      /\ UNCHANGED <<src, written, audio, sheets, why, lied>>
      /\ styled' = styled \ dropped
  BY DEF SetupFails
<1>2. PICK left \in SUBSET Of({"dvb"}) :
        files' = [f \in (DOMAIN files \ ScriptsOf(dropped)) \cup Sidecars(left) |->
                     IF f \in DOMAIN files THEN files[f] ELSE <<"part", f[2]>>]
  BY DEF SetupFails
<1>3. \A i \in styled : files[Script(i)][1] = "empty" => i \in dropped
  OBVIOUS
<1> HIDE DEF dropped
<1>4. /\ written \subseteq Tracks \ Of({"dvb"})
      /\ styled \subseteq written \cap Of({"ass"})
      /\ \A i \in styled : Is(Script(i), <<"whole", i>>) \/ Is(Script(i), <<"empty", i>>)
  BY <1>1 DEF IInv, TracksFit, Extracted
<1>5. ASSUME NEW i \in written
      PROVE  \A f \in Whose(i)' : Holds(f, Contents(i, src.subs[i] = "vobsub"))'
  <2>1. ASSUME NEW f \in Whose(i)
        PROVE  f[1] = "sub" /\ f[2] = i /\ f[3] \in {"vtt", "sup", "idx", "sub"}
    <3>1. CASE i \in Of({"vobsub"})
      BY <3>1, PairFiles, <2>1 DEF Pair
    <3>2. CASE i \notin Of({"vobsub"})
      BY <1>4, <3>2, <2>1, Formats DEF Whose, Of, IInv
    <3> QED BY <3>1, <3>2
  <2>2. \A f \in Whose(i) : f \notin ScriptsOf(dropped) /\ f \notin Sidecars(left)
    <3>1. \A j \in left : Sidecar(j) = <<"sub", j, "dvb">>
      BY Formats DEF Of, IInv
    <3> QED BY <2>1, <3>1 DEF ScriptsOf, Script, Sidecars
  <2>3. \A f \in Whose(i) : /\ f \in DOMAIN files' <=> f \in DOMAIN files
                            /\ f \in DOMAIN files => files'[f] = files[f]
    BY <1>2, <2>2
  <2> QED BY <1>1, <2>3, TracksStay DEF Extracted
<1>6. ASSUME NEW i \in styled'
      PROVE  Is(Script(i), <<"whole", i>>)'
  <2>1. i \in styled /\ i \notin dropped
    BY <1>1, <1>6
  <2>2. Is(Script(i), <<"whole", i>>)
    BY <1>3, <1>4, <2>1 DEF Is
  <2>3. Script(i) \notin ScriptsOf(dropped)
    BY <2>1 DEF ScriptsOf, Script
  <2> QED BY <1>2, <2>2, <2>3 DEF Is
<1>7. TracksFit'
  BY <1>1, <1>4, <1>5, <1>6, SourceSame DEF TracksFit, Extracted
<1> QED BY <1>1, <1>7, OnlyTracks DEF Extracted, IInv

-----------------------------------------------------------------------------
(* The manifest's subtitles and fonts *)

\* Naming a track extracted names its files, if its format is the track's.
LEMMA EntryOfTrack ==
    ASSUME IInv, NEW i \in written, pc \in Extracted, NEW e,
           e = Entry(i, Format[src.subs[i]], i \in styled)
    PROVE  /\ e \in Subtitle
           /\ e.n = i /\ Sides(e) = Whose(i) /\ (e.styled => i \in styled)
           /\ e.format = "idx" <=> src.subs[i] = "vobsub"
<1>1. i \in Tracks /\ i \notin Of({"dvb"}) /\ i \in Nat
  BY SourceTyped DEF IInv, TracksFit, Tracks
<1>2. Sidecar(i) = <<"sub", i, Format[src.subs[i]]>>
  BY DEF Sidecar
<1>3. /\ Format[src.subs[i]] \in {"vtt", "sup", "idx"}
      /\ Format[src.subs[i]] = "idx" <=> src.subs[i] = "vobsub"
  BY <1>1, <1>2, Formats DEF IInv, Of
<1>4. /\ e.n = i /\ e.format = Format[src.subs[i]] /\ e.styled = (i \in styled)
      /\ e \in Subtitle
  BY <1>1, <1>3 DEF Entry, Subtitle
<1>5. Sides(e) = Whose(i)
  BY <1>2, <1>3, <1>4 DEF Sides, Whose, Pair
<1> QED BY <1>3, <1>4, <1>5

LEMMA NameFits ==
    ASSUME IInv, NameSubtitles
    PROVE  IInv'
<1> USE DEF media, tracks, Goto, Fail
<1>1. /\ pc = "entries" /\ UNCHANGED <<src, files, written, styled, audio, sheets, lied>>
  BY DEF NameSubtitles
<1>2. pc \in Extracted
  BY <1>1 DEF Extracted
<1>3. CASE pc' = "failed" /\ why' = "missing" /\ UNCHANGED entries
           /\ \E i \in written \cap Of({"pgs"}) : Sidecar(i) \notin DOMAIN files
  <2>1. lied
    BY <1>1, <1>3 DEF IInv, TracksFit, Extracted, Whose, Of, Holds
  <2>2. TracksFit'
    BY <1>3 DEF TracksFit, Extracted
  <2> QED BY <1>1, <1>3, <2>1, <2>2, OnlyTracks DEF Extracted, IInv
<1>4. CASE pc' = "convert" /\ why' = why
           /\ entries' = {Entry(i, Format[src.subs[i]], i \in styled) : i \in written}
  <2>1. ASSUME NEW e \in entries'
        PROVE  /\ e \in Subtitle
               /\ e.n \in Tracks
               /\ \A f \in Sides(e) : Holds(f, Contents(e.n, e.format = "idx"))'
               /\ e.styled => Is(Script(e.n), <<"whole", e.n>>)'
    <3>1. PICK i \in written : e = Entry(i, Format[src.subs[i]], i \in styled)
      BY <1>4, <2>1
    <3>2. /\ e \in Subtitle
          /\ e.n = i /\ Sides(e) = Whose(i) /\ (e.styled => i \in styled)
          /\ e.format = "idx" <=> src.subs[i] = "vobsub"
      BY <1>2, <3>1, EntryOfTrack
    <3>3. i \in Tracks /\ \A f \in Whose(i) : Holds(f, Contents(i, src.subs[i] = "vobsub"))
      BY <1>1 DEF IInv, TracksFit, Extracted
    <3>4. i \in styled => Is(Script(i), <<"whole", i>>)
      BY <1>1 DEF IInv, TracksFit, Extracted
    <3>5. \A f \in Sides(e) : Holds(f, Contents(e.n, e.format = "idx"))
      BY <3>2, <3>3 DEF Contents, Holds
    <3>6. \A f, S : Holds(f, S)' <=> Holds(f, S)
      BY <1>1 DEF Holds
    <3>7. \A f, s : Is(f, s)' <=> Is(f, s)
      BY <1>1 DEF Is
    <3>8. \A n, b : Contents(n, b)' = Contents(n, b)
      BY DEF Contents
    <3> QED BY <3>2, <3>3, <3>4, <3>5, <3>6, <3>7, <3>8
  <2>2. EntriesFit'
    BY <1>1, <1>4, <2>1, SourceSame DEF EntriesFit
  <2>3. TracksFit' /\ FontsFit' /\ TextFits' /\ SheetsFit'
    BY <1>4 DEF TracksFit, FontsFit, TextFits, SheetsFit, Extracted, Entered, Fonted, Packaged,
                Boxed, Texted, Checked
  <2>4. MediaFits'
    BY <1>1, <1>4 DEF IInv, MediaFits, Packaged, Boxed, Texted, Checked
  <2>5. EndFits'
    BY <1>1, <1>4 DEF IInv, EndFits, Unextracted, Checked
  <2> QED BY <1>1, <1>4, <2>2, <2>3, <2>4, <2>5 DEF IInv, Steps
<1> QED BY <1>3, <1>4 DEF NameSubtitles

\* A subtitle file that is converted has a number no other subtitle has.
LEMMA ConvertFits ==
    ASSUME IInv, ConvertFiles
    PROVE  IInv'
<1> USE DEF media, tracks, Goto
<1>1. /\ pc = "convert" /\ pc' = "fonts"
      /\ UNCHANGED <<src, written, styled, audio, sheets, lied, why>>
  BY DEF ConvertFiles
<1> DEFINE L == Len(src.subs)
           names(k) == {<<"sub", L + k, "vtt">>} \cup
                  (IF src.beside[k] = "ass" THEN {<<"sub", L + k, "ass">>} ELSE {})
<1>2. PICK o \in Outcome(1..Len(src.beside), {"done"}, {"fail"}) :
        /\ files' = With([f \in UNION {names(k) : k \in Who(o, {"done"})} |->
                <<"whole", L + CHOOSE k \in Who(o, {"done"}) : f \in names(k)>>])
        /\ entries' = entries \cup
                {Entry(L + k, "vtt", src.beside[k] = "ass") : k \in Who(o, {"done"})}
  BY DEF ConvertFiles, Number
<1> DEFINE D == Who(o, {"done"})
           new == [f \in UNION {names(k) : k \in D} |->
                      <<"whole", L + CHOOSE k \in D : f \in names(k)>>]
<1>3. D \subseteq 1..Len(src.beside)
  BY DEF Outcome, Who
<1>4. L \in Nat /\ Len(src.beside) \in Nat
  BY SourceTyped DEF IInv
<1>5. files' = With(new) /\ DOMAIN new = UNION {names(k) : k \in D}
      /\ \A f \in DOMAIN new : new[f] = <<"whole", L + CHOOSE k \in D : f \in names(k)>>
  BY <1>2
<1>6. entries' = entries \cup {Entry(L + k, "vtt", src.beside[k] = "ass") : k \in D}
  BY <1>2
<1>7. \A k : \A f \in names(k) : f[1] = "sub" /\ f[2] = L + k
  OBVIOUS
<1>8. \A k : /\ <<"sub", L + k, "vtt">> \in names(k)
             /\ src.beside[k] = "ass" => <<"sub", L + k, "ass">> \in names(k)
  OBVIOUS
<1> HIDE DEF L, D, new, names
<1>9. ASSUME NEW k \in D, NEW f \in names(k)
      PROVE  f \in DOMAIN new /\ new[f] = <<"whole", L + k>>
  <2>1. f \in DOMAIN new
    BY <1>5
  <2>2. ASSUME NEW j \in D, f \in names(j) PROVE j = k
    <3>1. L + j = L + k
      BY <1>7, <2>2
    <3>2. j \in Int /\ k \in Int /\ L \in Int
      BY <1>3, <1>4
    <3> QED BY <3>1, <3>2
  <2>3. (CHOOSE j \in D : f \in names(j)) = k
    BY <2>2
  <2> QED BY <1>5, <2>1, <2>3
<1>10. ASSUME NEW k \in D, NEW f \in names(k)
       PROVE  f \in DOMAIN files' /\ files'[f] = <<"whole", L + k>>
  BY <1>5, <1>9, WithIs
<1>11. \A f \in DOMAIN new : f[2] \notin Tracks
  BY <1>3, <1>4, <1>5, <1>7 DEF Tracks, L
<1>12. \A f : f[2] \in Tracks => /\ f \in DOMAIN files' <=> f \in DOMAIN files
                                 /\ f \in DOMAIN files => files'[f] = files[f]
  BY <1>5, <1>11, WithIs
<1>13. ASSUME NEW e \in entries
       PROVE  /\ e \in Subtitle
              /\ \A f \in Sides(e) : Holds(f, Contents(e.n, e.format = "idx"))'
              /\ e.styled => Is(Script(e.n), <<"whole", e.n>>)'
  <2>1. /\ e \in Subtitle
        /\ e.n \in Tracks
        /\ \A f \in Sides(e) : Holds(f, Contents(e.n, e.format = "idx"))
        /\ e.styled => Is(Script(e.n), <<"whole", e.n>>)
    BY <1>1 DEF IInv, EntriesFit, Entered
  <2>2. (\A f \in Sides(e) : f[2] \in Tracks) /\ Script(e.n)[2] \in Tracks
    BY <2>1 DEF Sides, Script
  <2>3. \A f \in Sides(e) : Holds(f, Contents(e.n, e.format = "idx"))'
    BY <1>1, <1>12, <2>1, <2>2 DEF Holds, Contents
  <2>4. e.styled => Is(Script(e.n), <<"whole", e.n>>)'
    BY <1>12, <2>1, <2>2 DEF Is, Script
  <2> QED BY <2>1, <2>3, <2>4
<1>14. ASSUME NEW k \in D, NEW e, e = Entry(L + k, "vtt", src.beside[k] = "ass")
       PROVE  /\ e \in Subtitle
              /\ \A f \in Sides(e) : Holds(f, Contents(e.n, e.format = "idx"))'
              /\ e.styled => Is(Script(e.n), <<"whole", e.n>>)'
  <2>1. /\ e.n = L + k /\ e.format = "vtt" /\ e.styled = (src.beside[k] = "ass")
        /\ L + k \in Nat
        /\ e \in Subtitle
    BY <1>3, <1>4, <1>14 DEF Entry, Subtitle
  <2>2. Sides(e) = {<<"sub", L + k, "vtt">>}
    BY <2>1 DEF Sides
  <2>3. \A f \in Sides(e) : f \in DOMAIN files' /\ files'[f] = <<"whole", e.n>>
    BY <1>8, <1>10, <2>1, <2>2
  <2>4. e.styled => Is(Script(e.n), <<"whole", e.n>>)'
    <3>1. ASSUME e.styled PROVE <<"sub", L + k, "ass">> \in names(k)
      BY <1>8, <2>1, <3>1
    <3> QED BY <1>10, <2>1, <3>1 DEF Is, Script
  <2>5. \A f \in Sides(e) : Holds(f, Contents(e.n, e.format = "idx"))'
    <3>1. \A n, b : <<"whole", n>> \in Contents(n, b)'
      BY DEF Contents
    <3> QED BY <2>3, <3>1 DEF Holds
  <2> QED BY <2>1, <2>4, <2>5
<1>15. EntriesFit'
  BY <1>1, <1>6, <1>13, <1>14 DEF EntriesFit
<1>16. TracksFit' /\ FontsFit' /\ TextFits' /\ SheetsFit'
  BY <1>1 DEF TracksFit, FontsFit, TextFits, SheetsFit, Extracted, Entered, Fonted, Packaged,
              Boxed, Texted, Checked
<1>17. MediaFits'
  BY <1>1 DEF IInv, MediaFits, Packaged, Boxed, Texted, Checked
<1>18. EndFits'
  BY <1>1 DEF IInv, EndFits, Unextracted, Checked
<1> QED BY <1>1, <1>15, <1>16, <1>17, <1>18 DEF IInv, Steps

LEMMA FontsAreKept ==
    ASSUME IInv, ExtractFonts
    PROVE  IInv'
<1> USE DEF media, tracks, Goto
<1>1. /\ pc = "fonts" /\ pc' = "media"
      /\ UNCHANGED <<src, written, styled, audio, entries, sheets, lied, why>>
  BY DEF ExtractFonts
<1>2. PICK o \in Outcome(1..src.fonts, {"done"}, {"fail"}) :
        /\ fonts' = Who(o, {"done"})
        /\ files' = With([f \in {Font(i, fonts') : i \in fonts'} |->
                             <<"whole", CHOOSE i \in fonts' : Font(i, fonts') = f>>])
  BY DEF ExtractFonts
<1>3. fonts' \subseteq 1..src.fonts /\ src.fonts \in Nat
  BY <1>2, BuildAssumption DEF Outcome, Who, IInv, Sources
<1> DEFINE new == [f \in {Font(i, fonts') : i \in fonts'} |->
                      <<"whole", CHOOSE i \in fonts' : Font(i, fonts') = f>>]
<1>4. files' = With(new) /\ \A f \in DOMAIN new : f[1] = "font"
  <2>1. \A i, kept : Font(i, kept)[1] = "font"
    BY DEF Font
  <2> QED BY <1>2, <2>1
<1>5. ASSUME NEW i \in fonts'
      PROVE  Font(i, fonts') \in DOMAIN new /\ new[Font(i, fonts')] = <<"whole", i>>
  <2>1. (CHOOSE j \in fonts' : Font(j, fonts') = Font(i, fonts')) = i
    BY <1>3, FontsDiffer
  <2> QED BY <2>1
<1> HIDE DEF new
<1>6. \A i \in fonts' : Is(Font(i, fonts), <<"whole", i>>)'
  BY <1>4, <1>5, WithIs DEF Is, Font
<1>7. FontsFit'
  BY <1>6 DEF FontsFit
<1>8. Stays("sub")
  BY <1>4, WithStays
<1>9. EntriesFit'
  BY <1>1, <1>8, EntriesStay DEF IInv, Entered
<1>10. TracksFit' /\ TextFits' /\ SheetsFit'
  BY <1>1 DEF TracksFit, TextFits, SheetsFit, Extracted, Texted, Checked
<1>11. MediaFits'
  BY <1>1 DEF IInv, MediaFits, Packaged, Boxed, Texted, Checked
<1>12. EndFits'
  BY <1>1 DEF IInv, EndFits, Unextracted, Checked
<1> QED BY <1>1, <1>7, <1>9, <1>10, <1>11, <1>12 DEF IInv, Steps

-----------------------------------------------------------------------------
(* The media, the master and trickplay *)

\* Every rung and the stereo.
LEMMA MediaPackaged ==
    ASSUME IInv, PackageMedia
    PROVE  IInv'
<1> USE DEF tracks, media, manifest, Goto, Fail
<1>1. /\ pc = "media" /\ pc' \in {"hdr10", "failed"}
      /\ UNCHANGED <<src, written, styled, audio, staged, entries, fonts, boxed, sheets, lied>>
      /\ pc' = "hdr10" => why' = why
      /\ pc' = "failed" => why' = "media"
  BY DEF PackageMedia
<1>2. EndFits'
  BY <1>1 DEF IInv, EndFits, Unextracted, Checked
<1>3. TracksFit' /\ TextFits' /\ SheetsFit'
  BY <1>1 DEF TracksFit, TextFits, SheetsFit, Extracted, Texted, Checked
<1>4. CASE pc' = "failed"
  <2>1. EntriesFit' /\ FontsFit' /\ MediaFits'
    BY <1>1, <1>4 DEF IInv, EntriesFit, FontsFit, MediaFits, Entered, Fonted, Packaged, Boxed,
                      Texted, Checked
  <2> QED BY <1>1, <1>2, <1>3, <2>1 DEF IInv, Steps
<1>5. CASE pc' = "hdr10"
  <2> DEFINE new == [f \in {Rung(r) : r \in staged} \cup {Stereo} |->
                        <<IF f = Stereo THEN audio ELSE "whole", f[2]>>]
  <2>1. files' = With(new)
    BY <1>5 DEF PackageMedia
  <2>2. \A f \in DOMAIN new : f[1] \in {"rung", "audio"}
    BY DEF Rung, Stereo
  <2>3. Stereo \in DOMAIN new /\ new[Stereo] = <<audio, 1>>
    BY DEF Stereo
  <2>4. \A r \in staged : Rung(r) \in DOMAIN new /\ new[Rung(r)] = <<"whole", r>>
    BY DEF Rung, Stereo
  <2> HIDE DEF new
  <2>5. Stays("sub") /\ Stays("font")
    BY <2>1, <2>2, WithStays
  <2>6. EntriesFit' /\ FontsFit'
    BY <1>1, <2>5, EntriesStay, FontsStay DEF IInv, Entered, Fonted
  <2>7. Is(Stereo, <<audio, 1>>)' /\ \A r \in staged' : Is(Rung(r), <<"whole", r>>)'
    BY <1>1, <2>1, <2>3, <2>4, WithIs DEF Is, Stereo, Rung
  <2>8. MediaFits'
    BY <1>1, <1>5, <2>7 DEF IInv, MediaFits, Boxed, Texted, Checked
  <2> QED BY <1>1, <1>2, <1>3, <1>5, <2>6, <2>8 DEF IInv, Steps
<1> QED BY <1>1, <1>4, <1>5

\* Every PQ rung's metadata, or the run ends.
LEMMA Hdr10Fits ==
    ASSUME IInv, WriteHdr10
    PROVE  IInv'
<1> USE DEF tracks, media, manifest, Goto, Fail
<1>1. /\ pc = "hdr10" /\ pc' \in {"text", "failed"}
      /\ UNCHANGED <<src, written, styled, audio, staged, entries, fonts, sheets, lied>>
      /\ pc' = "text" => why' = why
      /\ pc' = "failed" => why' = "hdr10"
  BY DEF WriteHdr10
<1>2. EndFits'
  BY <1>1 DEF IInv, EndFits, Unextracted, Checked
<1>3. TracksFit' /\ TextFits' /\ SheetsFit'
  BY <1>1 DEF TracksFit, TextFits, SheetsFit, Extracted, Texted, Checked
<1>4. CASE pc' = "failed"
  <2>1. EntriesFit' /\ FontsFit' /\ MediaFits'
    BY <1>1, <1>4 DEF IInv, EntriesFit, FontsFit, MediaFits, Entered, Fonted, Packaged, Boxed,
                      Texted, Checked
  <2> QED BY <1>1, <1>2, <1>3, <2>1 DEF IInv, Steps
<1>5. CASE pc' = "text"
  <2>1. PICK pq \in SUBSET staged : /\ pq \in {{}, {r \in staged : src.rungs[r] = "pq"}}
                                    /\ files' = With(All({Rung(r) : r \in pq}, "boxed"))
                                    /\ boxed' = pq
    <3>1. PICK found \in BOOLEAN :
            LET pq == IF found THEN {r \in staged : src.rungs[r] = "pq"} ELSE {}
            IN /\ files' = With(All({Rung(r) : r \in pq \ {}}, "boxed"))
               /\ boxed' = pq
      BY <1>5 DEF WriteHdr10, AllBoxed
    <3> DEFINE pq == IF found THEN {r \in staged : src.rungs[r] = "pq"} ELSE {}
    <3>2. pq \ {} = pq
      OBVIOUS
    <3> QED BY <3>1, <3>2
  <2> DEFINE new == All({Rung(r) : r \in pq}, "boxed")
  <2>2. \A f \in DOMAIN new : f[1] = "rung"
    BY DEF All, Rung
  <2>3. \A r \in pq : Rung(r) \in DOMAIN new /\ new[Rung(r)] = <<"boxed", r>>
    BY DEF All, Rung
  <2>4. \A r \in staged \ pq : Rung(r) \notin DOMAIN new
    BY DEF All, Rung
  <2> HIDE DEF new
  <2>5. Stays("sub") /\ Stays("font") /\ Stays("audio")
    BY <2>1, <2>2, WithStays DEF new
  <2>6. EntriesFit' /\ FontsFit'
    BY <1>1, <2>5, EntriesStay, FontsStay DEF IInv, Entered, Fonted, Packaged
  <2>7. \A r \in staged : Is(Rung(r), <<"whole", r>>)
    BY <1>1 DEF IInv, MediaFits
  <2>8. files' = With(new)
    BY <2>1 DEF new
  <2>9. \A r \in staged' : Is(Rung(r), <<IF r \in boxed THEN "boxed" ELSE "whole", r>>)'
    BY <1>1, <2>1, <2>3, <2>4, <2>7, <2>8, WithIs DEF Is, Rung
  <2>10. Is(Stereo, <<audio, 1>>)'
    BY <1>1, <2>5 DEF IInv, MediaFits, Packaged, Is, Stereo, Stays
  <2>11. MediaFits'
    BY <1>1, <1>5, <2>1, <2>9, <2>10 DEF IInv, MediaFits
  <2> QED BY <1>1, <1>2, <1>3, <1>5, <2>6, <2>11 DEF IInv, Steps
<1> QED BY <1>1, <1>4, <1>5

\* Each rendition the master names.
LEMMA TextPackaged ==
    ASSUME IInv, PackageTextTracks
    PROVE  IInv'
<1> USE DEF tracks, media, Goto
<1>1. /\ pc = "text" /\ pc' = "trickplay"
      /\ UNCHANGED <<src, written, styled, audio, staged, fonts, boxed, sheets, lied, why>>
  BY DEF PackageTextTracks
<1>2. PICK shown \in SUBSET entries : \E o \in Outcome(shown, {"done", "no cue"}, {"fail"}) :
        /\ entries' = {[e EXCEPT !.hls = e \in Segmented(o)] : e \in entries}
        /\ files' = With(All({Text(e.n) : e \in Who(o, {"done"})} \cup {Master}, "whole"))
  BY DEF PackageTextTracks
<1>3. PICK o \in Outcome(shown, {"done", "no cue"}, {"fail"}) :
        /\ entries' = {[e EXCEPT !.hls = e \in Segmented(o)] : e \in entries}
        /\ files' = With(All({Text(e.n) : e \in Who(o, {"done"})} \cup {Master}, "whole"))
  BY <1>2
<1>4. Who(o, {"done"}) \in SUBSET entries
  BY DEF Outcome, Who
<1>5. PICK done \in SUBSET entries :
        /\ entries' = {[e EXCEPT !.hls = e \in done] : e \in entries}
        /\ files' = With(All({Text(e.n) : e \in done} \cup {Master}, "whole"))
  BY <1>3, <1>4, Zenon DEF Segmented
<1> DEFINE new == All({Text(e.n) : e \in done} \cup {Master}, "whole")
<1>6. \A f \in DOMAIN new : f[1] \in {"text", "master"}
  <2>1. DOMAIN new = {Text(e.n) : e \in done} \cup {Master}
    BY DEF All
  <2> HIDE DEF new
  <2>2. /\ \A e \in done : Text(e.n)[1] = "text"
        /\ Master[1] = "master"
    BY DEF Text, Master
  <2> QED BY <2>1, <2>2
<1>7. Master \in DOMAIN new /\ new[Master] = <<"whole", 1>>
  BY DEF All, Master
<1>8. \A e \in done : Text(e.n) \in DOMAIN new /\ new[Text(e.n)] = <<"whole", e.n>>
  BY DEF All, Text
<1>9. files' = With(new)
  BY <1>5, Zenon
<1> HIDE DEF new
<1>10. Stays("sub") /\ Stays("font") /\ Stays("rung") /\ Stays("audio")
  BY <1>6, <1>9, WithStays
<1>11. \A e \in entries :
        e \in Subtitle
  BY <1>1 DEF IInv, EntriesFit, Entered, Fonted, Packaged, Boxed
<1>12. \A d \in entries' : \E e \in entries :
         /\ d.n = e.n /\ d.format = e.format /\ d.styled = e.styled /\ (d.hls => e \in done)
         /\ d \in Subtitle
  <2>1. ASSUME NEW e \in entries, NEW d, d = [e EXCEPT !.hls = e \in done]
        PROVE  /\ d \in Subtitle
               /\ d.n = e.n /\ d.format = e.format /\ d.styled = e.styled
               /\ d.hls => e \in done
    <3>1. CASE e \in done
      <4>1. (e \in done) = TRUE
        BY <3>1
      <4>2. d = [e EXCEPT !.hls = TRUE]
        BY <2>1, <4>1, Zenon
      <4> QED BY <1>11, <3>1, <4>2 DEF Subtitle
    <3>2. CASE e \notin done
      <4>1. (e \in done) = FALSE
        BY <3>2, NotIn, Zenon
      <4>2. d = [e EXCEPT !.hls = FALSE]
        BY <2>1, <4>1, Zenon
      <4> QED BY <1>11, <4>2 DEF Subtitle
    <3> QED BY <3>1, <3>2
  <2>2. ASSUME NEW d \in entries'
        PROVE  \E e \in entries : d = [e EXCEPT !.hls = e \in done]
    BY <1>5, <2>2, Zenon
  <2>3. ASSUME NEW d \in entries'
        PROVE  \E e \in entries : /\ d \in Subtitle
                                  /\ d.n = e.n /\ d.format = e.format /\ d.styled = e.styled
                                  /\ d.hls => e \in done
    <3>1. PICK e \in entries : d = [e EXCEPT !.hls = e \in done]
      BY <2>2, <2>3, Zenon
    <3>2. /\ d \in Subtitle
          /\ d.n = e.n /\ d.format = e.format /\ d.styled = e.styled
          /\ d.hls => e \in done
      BY <2>1, <3>1, Zenon
    <3> QED BY <3>2
  <2> QED BY <2>3
<1>13. EntriesFit'
  <2>1. ASSUME NEW d \in entries'
        PROVE  /\ \A f \in Sides(d) : Holds(f, Contents(d.n, d.format = "idx"))'
               /\ d.styled => Is(Script(d.n), <<"whole", d.n>>)'
    <3>1. PICK e \in entries : d.n = e.n /\ d.format = e.format /\ d.styled = e.styled
      BY <1>12, <2>1
    <3>2. /\ \A f \in Sides(e) : Holds(f, Contents(e.n, e.format = "idx"))
          /\ e.styled => Is(Script(e.n), <<"whole", e.n>>)
      BY <1>1 DEF IInv, EntriesFit, Entered, Fonted, Packaged, Boxed
    <3>3. Sides(d) = Sides(e)
      BY <3>1 DEF Sides
    <3>4. \A f \in Sides(d) : Holds(f, Contents(d.n, d.format = "idx"))'
      BY <1>1, <1>10, <3>1, <3>2, <3>3, SidesAreSubs
         DEF Holds, Contents, Stays
    <3>5. d.styled => Is(Script(d.n), <<"whole", d.n>>)'
      BY <1>10, <3>1, <3>2 DEF Is, Script, Stays
    <3> QED BY <3>4, <3>5
  <2> QED BY <1>1, <1>12, <2>1 DEF EntriesFit
<1>14. FontsFit'
  BY <1>1, <1>10, FontsStay DEF IInv, Fonted, Packaged, Boxed
<1>15. MediaFits'
  BY <1>1, <1>10, MediaStays DEF IInv, Boxed
<1>16. TextFits'
  <2>1. Is(Master, <<"whole", 1>>)'
    BY <1>7, <1>9, WithIs DEF Is, Master
  <2>2. \A e \in done : Is(Text(e.n), <<"whole", e.n>>)'
    BY <1>8, <1>9, WithIs DEF Is, Text
  <2>3. \A d \in entries' : d.hls => \E e \in done : d.n = e.n
    BY <1>12
  <2> QED BY <2>1, <2>2, <2>3 DEF TextFits
<1>17. TracksFit' /\ SheetsFit'
  BY <1>1 DEF TracksFit, SheetsFit, Extracted, Checked
<1>18. EndFits'
  BY <1>1 DEF IInv, EndFits, Unextracted, Checked
<1> QED BY <1>1, <1>13, <1>14, <1>15, <1>16, <1>17, <1>18 DEF IInv, Steps

\* The cues are on the sheets that came.
LEMMA SheetsOfCues ==
    ASSUME NEW expected \in Thumbs, NEW came \in 1..2
    PROVE  (Cues(expected, came) + Cells - 1) \div Cells \in 1..came
BY DEF Thumbs, Cues, LeastOf, Cells

\* Each sheet the cues are on.
LEMMA TrickplayFits ==
    ASSUME IInv, Trickplay
    PROVE  IInv'
<1> USE DEF tracks, media, Goto
<1>1. /\ pc = "trickplay" /\ pc' = "verify" /\ sheets = 0
      /\ UNCHANGED <<src, written, styled, audio, staged, entries, fonts, boxed, lied, why>>
  BY DEF Trickplay, IInv, EndFits, Checked
<1> DEFINE Kinds == {"sub", "font", "rung", "audio", "text", "master"}
           Written == /\ sheets' \in Nat
                      /\ sheets' > 0 => /\ Is(Vtt, <<"whole", 0>>)'
                                        /\ \A x \in 1..sheets' : Is(Sprite(x), <<"whole", x>>)'
                      /\ \A kind \in Kinds : Stays(kind)
<1>2. ASSUME UNCHANGED <<files, sheets>> PROVE Written
  BY <1>1, <1>2 DEF Stays
<1>3. ASSUME files' = With(All({Sprite(1)}, "part")), UNCHANGED sheets PROVE Written
  <2> DEFINE new == All({Sprite(1)}, "part")
  <2>1. files' = With(new) /\ \A f \in DOMAIN new : f[1] = "sprite"
    BY <1>3 DEF All, Sprite
  <2> HIDE DEF new
  <2>2. \A kind \in Kinds : Stays(kind)
    BY <2>1, WithStays
  <2> QED BY <1>1, <1>3, <2>2
<1>4. ASSUME NEW expected \in Thumbs, NEW came \in 1..2,
             sheets' = (Cues(expected, came) + Cells - 1) \div Cells,
             files' = With(All({Sprite(x) : x \in 1..came} \cup {Vtt}, "whole"))
      PROVE  Written
  <2> DEFINE new == All({Sprite(x) : x \in 1..came} \cup {Vtt}, "whole")
  <2>1. files' = With(new) /\ \A f \in DOMAIN new : f[1] = "sprite"
    BY <1>4 DEF All, Sprite, Vtt
  <2>2. Vtt \in DOMAIN new /\ new[Vtt] = <<"whole", 0>>
    BY DEF All, Vtt
  <2>3. \A x \in 1..came : Sprite(x) \in DOMAIN new /\ new[Sprite(x)] = <<"whole", x>>
    BY DEF All, Sprite
  <2> HIDE DEF new
  <2>4. \A kind \in Kinds : Stays(kind)
    BY <2>1, WithStays
  <2>5. sheets' \in 1..came
    BY <1>4, SheetsOfCues
  <2>6. \A x \in 1..came : Is(Sprite(x), <<"whole", x>>)'
    BY <2>1, <2>3, WithIs DEF Is, Sprite
  <2>7. Is(Vtt, <<"whole", 0>>)'
    BY <2>1, <2>2, WithIs DEF Is, Vtt
  <2>8. sheets' \in Nat /\ \A x \in 1..sheets' : x \in 1..came
    BY <2>5
  <2> QED BY <2>4, <2>6, <2>7, <2>8
<1>5. Written
  BY <1>2, <1>3, <1>4 DEF Trickplay
<1>6. EntriesFit' /\ FontsFit' /\ MediaFits' /\ TextFits'
  BY <1>1, <1>5, EntriesStay, FontsStay, MediaStays, TextStays
     DEF IInv, Entered, Fonted, Packaged, Boxed, Texted
<1>7. TracksFit' /\ SheetsFit'
  BY <1>1, <1>5 DEF TracksFit, SheetsFit, Extracted
<1>8. EndFits'
  BY <1>1 DEF IInv, EndFits, Unextracted, Checked
<1> QED BY <1>1, <1>5, <1>6, <1>7, <1>8 DEF IInv, Steps

-----------------------------------------------------------------------------
(* The check, and the whole *)

\* Unless a tool lied, every file the manifest and the master name is there,
\* and none of those that may not be empty is.
LEMMA NothingMissing ==
    ASSUME IInv, pc = "verify", ~lied
    PROVE  /\ NamedSides \cup Named \subseteq DOMAIN files
           /\ \A f \in Named : files[f][1] # "empty"
<1> DEFINE Good(f) == f \in DOMAIN files /\ files[f][1] # "empty"
<1> USE DEF Is
<1>1. pc \in Entered /\ pc \in Fonted /\ pc \in Packaged /\ pc \in Boxed /\ pc \in Texted
      /\ pc \in Checked
  BY DEF Entered, Fonted, Packaged, Boxed, Texted, Checked
<1>2. NamedSides \subseteq DOMAIN files
  BY <1>1 DEF IInv, EntriesFit, NamedSides, Holds
<1>3. Good(Master) /\ \A e \in entries : e.hls => Good(Text(e.n))
  BY <1>1 DEF IInv, TextFits
<1>4. Good(Stereo) /\ \A r \in staged : Good(Rung(r))
  BY <1>1 DEF IInv, MediaFits
<1>5. \A e \in entries : e.styled => Good(Script(e.n))
  BY <1>1 DEF IInv, EntriesFit
<1>6. \A i \in fonts : Good(Font(i, fonts))
  BY <1>1 DEF IInv, FontsFit
<1>7. sheets > 0 => Good(Vtt) /\ \A x \in 1..sheets : Good(Sprite(x))
  BY <1>1 DEF IInv, SheetsFit
<1> HIDE DEF Good
<1>8. \A f \in Named : Good(f)
  BY <1>3, <1>4, <1>5, <1>6, <1>7 DEF Named
<1> QED BY <1>2, <1>8 DEF Good

\* So the check fails a build only where one did, and places what it names.
LEMMA VerifyFits ==
    ASSUME IInv, Verify
    PROVE  IInv'
<1> USE DEF tracks, media, manifest, Goto, Fail
<1>1. /\ pc = "verify" /\ pc' \in {"placed", "failed"}
      /\ UNCHANGED <<src, files, written, styled, audio, staged, entries, fonts, boxed, sheets,
                     lied>>
  BY DEF Verify
<1>2. /\ Stays("sub") /\ Stays("font") /\ Stays("rung")
      /\ Stays("audio") /\ Stays("text") /\ Stays("master")
  BY <1>1 DEF Stays
<1>3. pc' = "placed" => NamedSides \cup Named \subseteq DOMAIN files
  BY DEF Verify
<1>4. NamedSides' = NamedSides /\ Named' = Named
  BY <1>1 DEF NamedSides, Sides, Named, Master, Stereo, Rung, Script, Text, Font, Sprite, Vtt
<1>5. /\ pc' = "placed" => why' = why
      /\ pc' = "failed" => why' = "missing" /\ lied
  BY NothingMissing DEF Verify
<1>6. EndFits'
  BY <1>1, <1>3, <1>4, <1>5 DEF IInv, EndFits, Unextracted, Checked
<1>7. pc \in Entered /\ pc \in Fonted /\ pc \in Boxed /\ pc \in Texted
  BY <1>1 DEF Entered, Fonted, Packaged, Boxed, Texted, Checked
<1>8. EntriesFit' /\ FontsFit' /\ MediaFits' /\ TextFits'
  BY <1>1, <1>2, <1>7, EntriesStay, FontsStay, MediaStays, TextStays DEF IInv
<1>9. TracksFit' /\ SheetsFit'
  BY <1>1 DEF IInv, TracksFit, SheetsFit, Extracted, Checked, Is, Vtt, Sprite
<1> QED BY <1>1, <1>6, <1>8, <1>9 DEF IInv, Steps

\* A build begins with nothing named, and keeps to it at every step.
LEMMA InitFits == Init => IInv
<1> SUFFICES ASSUME Init PROVE IInv
  OBVIOUS
<1>1. /\ src \in Sources /\ pc = "transmux" /\ audio = "whole"
      /\ sheets = 0 /\ why = "" /\ lied = FALSE
  BY DEF Init
<1>2. EndFits
  BY <1>1 DEF EndFits, Checked
<1>3. TracksFit /\ EntriesFit /\ FontsFit /\ MediaFits /\ TextFits /\ SheetsFit
  BY <1>1 DEF TracksFit, EntriesFit, FontsFit, MediaFits, TextFits, SheetsFit, Extracted,
              Entered, Fonted, Packaged, Boxed, Texted, Checked
<1> QED BY <1>1, <1>2, <1>3 DEF IInv, Steps

LEMMA StutterFits ==
    ASSUME IInv, UNCHANGED vars
    PROVE  IInv'
<1> USE DEF vars, tracks, media, manifest
<1>1. /\ \A f, S : Holds(f, S)' <=> Holds(f, S)
      /\ \A f, s : Is(f, s)' <=> Is(f, s)
  BY DEF Holds, Is
<1>2. \A n, b : Contents(n, b)' = Contents(n, b)
  BY DEF Contents
<1>3. NamedSides' = NamedSides /\ Named' = Named
  BY DEF NamedSides, Sides, Named, Master, Stereo, Rung, Script, Text, Font, Sprite, Vtt
<1>4. EndFits'
  BY <1>3 DEF IInv, EndFits
<1>5. TracksFit'
  BY <1>1, <1>2, SourceSame DEF IInv, TracksFit
<1>6. EntriesFit'
  BY <1>1, <1>2, SourceSame DEF IInv, EntriesFit
<1>7. FontsFit' /\ MediaFits' /\ TextFits' /\ SheetsFit'
  BY DEF IInv, FontsFit, MediaFits, TextFits, SheetsFit, Is, Rung, Stereo, Master, Text, Font,
         Vtt, Sprite
<1> QED BY <1>4, <1>5, <1>6, <1>7 DEF IInv

LEMMA StepFits == IInv /\ [Next]_vars => IInv'
<1> SUFFICES ASSUME IInv, [Next]_vars PROVE IInv'
  OBVIOUS
<1>1. CASE Transmux \/ LiftStereo \/ RemuxRungs
  BY <1>1, EarlyFits
<1>2. CASE ExtractTogether
  BY <1>2, TogetherFits
<1>3. CASE ExtractAlone
  BY <1>3, AloneFits
<1>4. CASE ExtractStyled
  BY <1>4, StyledFits
<1>5. CASE ExtractVobsubs
  BY <1>5, VobsubsFit
<1>6. CASE SetupFails
  BY <1>6, SetupFits
<1>7. CASE NameSubtitles
  BY <1>7, NameFits
<1>8. CASE ConvertFiles
  BY <1>8, ConvertFits
<1>9. CASE ExtractFonts
  BY <1>9, FontsAreKept
<1>10. CASE PackageMedia
  BY <1>10, MediaPackaged
<1>11. CASE WriteHdr10
  BY <1>11, Hdr10Fits
<1>12. CASE PackageTextTracks
  BY <1>12, TextPackaged
<1>13. CASE Trickplay
  BY <1>13, TrickplayFits
<1>14. CASE Verify
  BY <1>14, VerifyFits
<1>15. CASE UNCHANGED vars
  BY <1>15, StutterFits
<1> QED BY <1>1, <1>2, <1>3, <1>4, <1>5, <1>6, <1>7, <1>8, <1>9, <1>10, <1>11, <1>12, <1>13,
           <1>14, <1>15 DEF Next

\* At every step of a build, what is said of the folder -- by the tracks
\* listed, then by the manifest and the master -- is so of what its files hold,
\* or a tool lied.
THEOREM Invariance == Spec => []IInv
BY InitFits, StepFits, PTL DEF Spec

\* Each file a placed package names holds all of the track, rung or font it is
\* named for -- _verify_staged, which looks at no file's content, need not: the
\* steps before it name only what they wrote whole.
THEOREM PlacedAlwaysWhole == Spec => []PlacedIsWhole
<1>1. ASSUME IInv, pc = "placed"
      PROVE  /\ \A e \in entries : \A f \in Sides(e) :
                   files[f] \in {<<"whole", e.n>>}
                       \cup (IF e.format = "idx" THEN {<<"part", e.n>>} ELSE {})
             /\ \A e \in entries : e.styled => files[Script(e.n)] = <<"whole", e.n>>
             /\ \A i \in fonts : files[Font(i, fonts)] = <<"whole", i>>
             /\ \A r \in staged : files[Rung(r)] = <<IF r \in boxed THEN "boxed" ELSE "whole", r>>
             /\ boxed \in {{}, {r \in staged : src.rungs[r] = "pq"}}
             /\ files[Stereo][1] # "over"
  <2>1. NamedSides \subseteq DOMAIN files
    BY <1>1 DEF IInv, EndFits
  <2>2. pc \in Entered /\ pc \in Fonted /\ pc \in Packaged /\ pc \in Boxed
    BY <1>1 DEF Entered, Fonted, Packaged, Boxed, Texted, Checked
  <2>3. \A e \in entries : \A f \in Sides(e) : files[f] \in Contents(e.n, e.format = "idx")
    BY <1>1, <2>1, <2>2 DEF IInv, EntriesFit, Holds, NamedSides
  <2>4. \A e \in entries : e.styled => files[Script(e.n)] = <<"whole", e.n>>
    BY <1>1, <2>2 DEF IInv, EntriesFit, Is
  <2>5. \A i \in fonts : files[Font(i, fonts)] = <<"whole", i>>
    BY <1>1, <2>2 DEF IInv, FontsFit, Is
  <2>6. /\ \A r \in staged : files[Rung(r)] = <<IF r \in boxed THEN "boxed" ELSE "whole", r>>
        /\ boxed \in {{}, {r \in staged : src.rungs[r] = "pq"}}
        /\ files[Stereo][1] # "over"
    BY <1>1, <2>2 DEF IInv, MediaFits, Is
  <2> QED BY <2>3, <2>4, <2>5, <2>6 DEF Contents
<1>2. IInv => PlacedIsWhole
  BY <1>1 DEF PlacedIsWhole
<1> QED BY Invariance, <1>2, PTL

\* The check before the swap refuses a package only where a tool said it wrote
\* what it did not: no optional step that failed and went on costs the build.
THEOREM OptionalAlone == Spec => []OptionalCostsItself
<1>1. IInv => OptionalCostsItself
  BY DEF IInv, EndFits, OptionalCostsItself
<1> QED BY Invariance, <1>1, PTL
=============================================================================
