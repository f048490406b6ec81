------------------------------ MODULE PlansProofs ------------------------------
(***************************************************************************)
(* Theorems about the decisions of Plans: a folder's chain tells what the  *)
(* folder is, for any files and whatever happens to them; a viewer hears   *)
(* the film, for any number of tracks, as loud as it was meant, and sees   *)
(* its picture as the source has it; an original is let go exactly when    *)
(* nothing of it is lost; and what the catalog took is asked of it once.   *)
(***************************************************************************)
EXTENDS Plans, FiniteSetTheorems, SequenceTheorems, WellFoundedInduction, TLAPS

(***************************************************************************)
(* Sequences, least numbers, and what is carried from each to the next.    *)
(***************************************************************************)

\* A sequence without its last element, and that element.
LEMMA FrontLast ==
    ASSUME NEW S, NEW s \in Seq(S), s # << >>
    PROVE  /\ Front(s) \in Seq(S) /\ Len(Front(s)) = Len(s) - 1 /\ Len(s) \in Nat \ {0}
           /\ \A k \in 1..(Len(s) - 1) : Front(s)[k] = s[k]
           /\ Last(s) = s[Len(s)] /\ Last(s) \in S
<1>1. Len(s) \in Nat \ {0}
  BY EmptySeq
<1>2. \A i \in 1..(Len(s) - 1) : s[i] \in S
  BY <1>1, ElementOfSeq
<1> DEFINE n == Len(s) - 1
<1>3. n \in Int /\ n = Len(s) - 1
  BY <1>1
<1>4. \A i \in 1..n : s[i] \in S
  BY <1>2
<1> HIDE DEF n
<1>5. /\ SubSeq(s, 1, n) \in Seq(S)
      /\ Len(SubSeq(s, 1, n)) = IF 1 <= n THEN n - 1 + 1 ELSE 0
      /\ \A i \in 1..(n - 1 + 1) : SubSeq(s, 1, n)[i] = s[1 + i - 1]
  BY <1>3, <1>4, SubSeqProperties
<1>6. /\ SubSeq(s, 1, n) \in Seq(S) /\ Len(SubSeq(s, 1, n)) = n
      /\ \A i \in 1..n : SubSeq(s, 1, n)[i] = s[i]
  BY <1>1, <1>3, <1>5
<1>7. Front(s) = SubSeq(s, 1, n) /\ Last(s) = s[Len(s)]
  BY <1>3 DEF Front, Last
<1>8. s[Len(s)] \in S
  BY <1>1, ElementOfSeq
<1> QED BY <1>1, <1>3, <1>8, <1>6, <1>7

\* A sequence with one more.
LEMMA AppendLast ==
    ASSUME NEW S, NEW s \in Seq(S), NEW x \in S
    PROVE  /\ Append(s, x) \in Seq(S) /\ Append(s, x) # << >>
           /\ Len(s) \in Nat /\ Len(Append(s, x)) = Len(s) + 1
           /\ \A k \in 1..Len(s) : Append(s, x)[k] = s[k]
           /\ Append(s, x)[Len(s) + 1] = x /\ Last(Append(s, x)) = x
BY AppendProperties, LenProperties DEF Last

\* A sequence with one more, without it.
LEMMA FrontAppended ==
  ASSUME NEW S, NEW s \in Seq(S), NEW x \in S
  PROVE  Front(Append(s, x)) = s
<1> DEFINE t == Append(s, x)
<1>1. t \in Seq(S) /\ t # << >> /\ Len(t) = Len(s) + 1 /\ Len(s) \in Nat /\ \A k \in 1 .. Len(s) : t[k] = s[k]
  BY AppendLast
<1> HIDE DEF t
<1>2. Front(t) \in Seq(S) /\ Len(Front(t)) = Len(s) /\ \A k \in 1 .. Len(s) : Front(t)[k] = t[k]
  BY <1>1, FrontLast
<1>3. Front(t) = s
  <2>1. \A k \in 1 .. Len(Front(t)) : Front(t)[k] = s[k]
    BY <1>1, <1>2
  <2> QED
    BY <1>2, <2>1, SeqEqual
<1> QED
  BY <1>3 DEF t

\* A sequence is what stands before a place and what stands after it.
LEMMA CutAt ==
  ASSUME NEW B, NEW s \in Seq(B), NEW at \in 0 .. Len(s)
  PROVE  /\ SubSeq(s, 1, at) \in Seq(B) /\ SubSeq(s, at + 1, Len(s)) \in Seq(B)
         /\ SubSeq(s, 1, at) \o SubSeq(s, at + 1, Len(s)) = s
<1>1. Len(s) \in Nat /\ (\A i \in 1 .. Len(s) : s[i] \in B) /\ 1 \in 1 .. Len(s) + 1 /\ at \in 1 - 1 .. Len(s)
      /\ Len(s) \in at .. Len(s)
  OBVIOUS
<1>2. SubSeq(s, 1, at) \in Seq(B)
  <2>1. \A i \in 1 .. at : s[i] \in B
    BY <1>1
  <2> QED
    BY <1>1, <2>1, SubSeqProperties
<1>3. SubSeq(s, at + 1, Len(s)) \in Seq(B)
  <2>1. \A i \in at + 1 .. Len(s) : s[i] \in B
    BY <1>1
  <2> QED
    BY <1>1, <2>1, SubSeqProperties
<1>4. SubSeq(s, 1, at) \o SubSeq(s, at + 1, Len(s)) = SubSeq(s, 1, Len(s))
  BY <1>1, ConcatAdjacentSubSeq
<1> QED
  BY <1>2, <1>3, <1>4, SubSeqFull

\* Two put together.
LEMMA TwoAppended ==
    ASSUME NEW x, NEW y
    PROVE  Append(<<x>>, y) = <<x, y>> /\ <<x>> \o <<y>> = <<x, y>>
<1> DEFINE S == {x, y}
           s == Append(<<x>>, y)
           t == <<x, y>>
<1>1. <<x>> \in Seq(S) /\ y \in S
  OBVIOUS
<1>2. t \in Seq(S)
  OBVIOUS
<1>3. s \in Seq(S) /\ Len(s) = 2 /\ s[1] = x /\ s[2] = y
  BY <1>1, AppendProperties
<1>4. Len(t) = 2 /\ t[1] = x /\ t[2] = y
  OBVIOUS
<1>5. s = <<x>> \o <<y>>
  BY <1>1, AppendIsConcat, Zenon
<1> HIDE DEF s, t, S
<1>6. Len(s) = Len(t) /\ \A i \in 1 .. Len(s) : s[i] = t[i]
  BY <1>3, <1>4
<1>7. s = t
  BY <1>2, <1>3, <1>6, SeqEqual
<1> QED BY <1>5, <1>7 DEF s, t

\* A set of numbers has a least one.
LEMMA LeastNumber ==
  ASSUME NEW T, T \subseteq Nat, T # {}
  PROVE  \E x \in T : \A y \in T : x <= y
<1>1. \E x \in T : \A y \in T : <<y, x>> \notin OpToRel(<, Nat)
  BY NatLessThanWellFounded, WFMin, Zenon
<1>2. \A x, y \in Nat : <<y, x>> \notin OpToRel(<, Nat) => ~ (y < x)
  BY Zenon DEF OpToRel
<1>3. \A x, y \in Nat : ~ (y < x) => x <= y
  OBVIOUS
<1> QED
  BY <1>1, <1>2, <1>3, Zenon

\* A computation in numbered steps from a base.
Carries(f, N, T, base, step) ==
  f \in [0 .. N -> T] /\ f[0] = base /\ \A n \in 1 .. N : f[n] = step[n][f[n - 1]]

\* It can be carried out, to any number of steps.
LEMMA CarriedOut ==
  ASSUME NEW N \in Nat, NEW T, NEW base \in T, NEW step \in [1 .. N -> [T -> T]]
  PROVE  \E f : Carries(f, N, T, base, step)
<1> DEFINE Done(m) == \E f : Carries(f, m, T, base, step)
           bad == {m \in 0 .. N : ~ Done(m)}
<1>1. Done(0)
  <2>1. Carries([n \in 0 .. 0 |-> base], 0, T, base, step)
    BY DEF Carries
  <2> QED
    BY <2>1
<1>2. ASSUME NEW m \in 1 .. N, Done(m - 1)  PROVE Done(m)
  <2>1. PICK f : Carries(f, m - 1, T, base, step)
    BY <1>2
  <2> DEFINE g == [n \in 0 .. m |-> IF n < m THEN f[n] ELSE step[m][f[m - 1]]]
  <2>2. f \in [0 .. (m - 1) -> T] /\ f[0] = base /\ \A n \in 1 .. (m - 1) : f[n] = step[n][f[n - 1]]
    BY <2>1 DEF Carries
  <2>3. step[m][f[m - 1]] \in T
    BY <2>2
  <2>4. g \in [0 .. m -> T] /\ g[0] = base
    BY <2>2, <2>3
  <2>5. ASSUME NEW n \in 1 .. m  PROVE g[n] = step[n][g[n - 1]]
    <3>1. CASE n < m
      BY <2>2, <3>1
    <3>2. CASE n = m
      BY <2>2, <3>2
    <3> QED
      BY <3>1, <3>2
  <2>6. Carries(g, m, T, base, step)
    <3> HIDE DEF g
    <3> QED
      BY <2>4, <2>5 DEF Carries
  <2> QED
    BY <2>6
<1> HIDE DEF Done
<1>3. bad = {}
  <2> SUFFICES ASSUME bad # {}  PROVE FALSE
    OBVIOUS
  <2>1. bad \subseteq Nat
    OBVIOUS
  <2>2. PICK m \in bad : \A k \in bad : m <= k
    <3> HIDE DEF bad
    <3> QED
      BY <2>1, LeastNumber
  <2>3. m # 0
    BY <1>1
  <2>4. m \in 1 .. N /\ m - 1 \in 0 .. N
    BY <2>3
  <2>5. Done(m - 1)
    BY <2>2, <2>4
  <2> QED
    BY <1>2, <2>4, <2>5
<1>4. Done(N)
  BY <1>3
<1> QED
  BY <1>4 DEF Done

\* In one way only.
LEMMA CarriedOnce ==
  ASSUME NEW N \in Nat, NEW T, NEW base, NEW step,
         NEW f, Carries(f, N, T, base, step), NEW g, Carries(g, N, T, base, step)
  PROVE  f[N] = g[N]
<1> DEFINE bad == {m \in 0 .. N : f[m] # g[m]}
<1>1. bad = {}
  <2> SUFFICES ASSUME bad # {}  PROVE FALSE
    OBVIOUS
  <2>1. bad \subseteq Nat
    OBVIOUS
  <2>2. PICK m \in bad : \A k \in bad : m <= k
    <3> HIDE DEF bad
    <3> QED
      BY <2>1, LeastNumber
  <2>3. m # 0
    BY DEF Carries
  <2>4. m \in 1 .. N /\ m - 1 \in 0 .. N /\ ~ (m <= m - 1)
    BY <2>3
  <2>5. f[m - 1] = g[m - 1]
    BY <2>2, <2>4
  <2>6. f[m] = step[m][f[m - 1]] /\ g[m] = step[m][g[m - 1]]
    BY <2>4 DEF Carries
  <2> QED
    BY <2>5, <2>6
<1> QED
  BY <1>1

\* One more is one more of the second of two put together.
LEMMA AppendJoined ==
    \A S : \A z \in S : \A x \in Seq(S) : \A y \in Seq(S) : Append(x \o y, z) = x \o Append(y, z)
<1> TAKE S
<1> TAKE z \in S
<1> TAKE x \in Seq(S)
<1> TAKE y \in Seq(S)
<1>1. x \o y \in Seq(S) /\ <<z>> \in Seq(S)
  OBVIOUS
<1>2. Append(x \o y, z) = (x \o y) \o <<z>>
  BY <1>1, AppendIsConcat
<1>3. Append(y, z) = y \o <<z>>
  BY AppendIsConcat
<1>4. (x \o y) \o <<z>> = x \o (y \o <<z>>)
  BY <1>1, ConcatAssociative
<1> QED
  BY <1>2, <1>3, <1>4, Zenon

(***************************************************************************)
(* The kinds of the jobs.                                                  *)
(***************************************************************************)

\* Each action takes a job of its own kind.
LEMMA PlanKinds ==
  /\ PlanAudio => job'.kind = "audio"
  /\ RecordSubtitles \/ RecordMedia => job'.kind = "record"
  /\ WriteGroup => job'.kind = "group"
  /\ WriteSubtitles => job'.kind = "subtitles"
  /\ WriteMaster => job'.kind = "master"
  /\ ReadHdr10 => job'.kind = "metadata"
  /\ CopyVideo => job'.kind = "copy"
  /\ WriteHdr10 => job'.kind = "hdr10"
  /\ CloseChain \/ ChangeFolder \/ CloseLater => job'.kind = "chain"
<1>1. PlanAudio => job'.kind = "audio"
  BY DEF PlanAudio, AudioPlan
<1>2. WriteGroup => job'.kind = "group"
  BY DEF WriteGroup
<1>3. WriteSubtitles => job'.kind = "subtitles"
  BY DEF WriteSubtitles
<1>4. RecordSubtitles => job'.kind = "record"
  BY DEF RecordSubtitles
<1>5. RecordMedia => job'.kind = "record"
  BY DEF RecordMedia
<1>6. WriteMaster => job'.kind = "master"
  BY DEF WriteMaster
<1>7. ReadHdr10 => job'.kind = "metadata"
  BY DEF ReadHdr10
<1>8. CopyVideo => job'.kind = "copy"
  BY DEF CopyVideo
<1>9. WriteHdr10 => job'.kind = "hdr10"
  BY DEF WriteHdr10
<1>10. CloseChain => job'.kind = "chain"
  BY DEF CloseChain, Folder
<1>11. ChangeFolder => job'.kind = "chain"
  BY DEF ChangeFolder, Folder
<1>12. CloseLater => job'.kind = "chain"
  BY DEF CloseLater, Folder
<1> QED
  BY <1>1, <1>2, <1>3, <1>4, <1>5, <1>6, <1>7, <1>8, <1>9, <1>10, <1>11, <1>12

\* Those of Readings.
LEMMA ReadingKinds ==
  /\ NameTrack => job'.kind = "name"
  /\ ReadEvent => job'.kind = "event"
  /\ ReadExtra => job'.kind = "extra"
  /\ MixAudio => job'.kind = "mix"
  /\ LiftMix => job'.kind = "lift"
  /\ PackageAudio => job'.kind = "streams"
  /\ CopySidecars \/ FindSidecars => job'.kind = "sidecars"
<1>1. NameTrack => job'.kind = "name"
  BY DEF NameTrack
<1>2. ReadEvent => job'.kind = "event"
  <2>1. \A e, r, s, i, l, t : Read(e, r, s, i, l, t).kind = "event"
    BY DEF Read
  <2> SUFFICES ASSUME ReadEvent  PROVE job'.kind = "event"
    OBVIOUS
  <2>2. PICK step \in {"package", "takein"}, steps \in StepsOf :
       \/ \E mode \in BUILD_MODES \cup {"none"}, inbox \in Inboxes, legacy \in Legacies :
          \E there \in There(inbox, legacy), library \in {{}, {Block(mode)}} :
            job' = Read(WorkEvent(step, "i"), {WorkRecord(library, "none", "i", "new")},
                        steps, inbox, legacy, there)
       \/ \E mode \in {"establish", "takein", "repackage"}, type \in {"episode", "movie"} :
          \E lib \in OneOff(Block(mode)) :
            job' = Read(WorkEvent(step, "i"), {WorkRecord({lib}, type, "i", "new")}, steps,
                        NoInbox("own"), NoInbox("legacy"), {Original})
       \/ \E event \in OddEvents(step) :
            job' = Read(event, {}, steps, NoInbox("own"), NoInbox("legacy"), {Original})
    BY Zenon DEF ReadEvent
  <2>3. CASE \E mode \in BUILD_MODES \cup {"none"}, inbox \in Inboxes, legacy \in Legacies :
             \E there \in There(inbox, legacy), library \in {{}, {Block(mode)}} :
               job' = Read(WorkEvent(step, "i"), {WorkRecord(library, "none", "i", "new")},
                           steps, inbox, legacy, there)
    <3>1. PICK mode, inbox, legacy, there, library :
            job' = Read(WorkEvent(step, "i"), {WorkRecord(library, "none", "i", "new")},
                        steps, inbox, legacy, there)
      BY <2>3
    <3> QED
      BY <2>1, <3>1
  <2>4. CASE \E mode \in {"establish", "takein", "repackage"}, type \in {"episode", "movie"} :
             \E lib \in OneOff(Block(mode)) :
               job' = Read(WorkEvent(step, "i"), {WorkRecord({lib}, type, "i", "new")}, steps,
                           NoInbox("own"), NoInbox("legacy"), {Original})
    BY <2>1, <2>4
  <2>5. CASE \E event \in OddEvents(step) :
               job' = Read(event, {}, steps, NoInbox("own"), NoInbox("legacy"), {Original})
    BY <2>1, <2>5, SMT
  <2> QED
    BY <2>2, <2>3, <2>4, <2>5, Zenon
<1>3. ReadExtra => job'.kind = "extra"
  BY DEF ReadExtra
<1>4. MixAudio => job'.kind = "mix"
  BY DEF MixAudio
<1>5. LiftMix => job'.kind = "lift"
  <2> SUFFICES ASSUME LiftMix  PROVE job'.kind = "lift"
    OBVIOUS
  <2>1. PICK target, loudness, makeup, timing, flat : LiftIt(target, loudness, makeup, timing, flat)
    BY Zenon DEF LiftMix
  <2>2. PICK run, out : job' = [kind |-> "lift", target |-> target, run |-> run, makeup |-> makeup, out |-> out]
    BY <2>1, Zenon DEF LiftIt
  <2> QED
    BY <2>2
<1>6. PackageAudio => job'.kind = "streams"
  <2>1. ASSUME NEW s, NEW k, NEW n, NEW t, NEW w, NEW r, NEW l
        PROVE  AudioPackage(s, k, n, t, w, r, l).kind = "streams"
    BY DEF AudioPackage
  <2> QED
    BY <2>1 DEF PackageAudio
<1>7. CopySidecars => job'.kind = "sidecars"
  BY DEF CopySidecars, SidecarJob
<1>8. FindSidecars => job'.kind = "sidecars"
  BY DEF FindSidecars, SidecarJob
<1> QED
  BY <1>1, <1>2, <1>3, <1>4, <1>5, <1>6, <1>7, <1>8

\* Those of Writings.
LEMMA WritingKinds ==
  /\ Writing => job'.kind \in {"facts", "spoken", "manifest", "handed", "source", "naming", "flags",
                               "playlist", "session", "process"}
  /\ Writing /\ ~ OpenSession /\ ~ CallAgain /\ ~ StartProcess => job'.kind \notin {"session", "process"}
  /\ OpenSession \/ CallAgain => job'.kind = "session"
  /\ StartProcess => job'.kind = "process"
<1>1. TellSource => job'.kind = "facts"
  BY DEF TellSource
<1>2. NameExtra => job'.kind = "spoken"
  BY DEF NameExtra
<1>3. WriteManifest => job'.kind = "manifest"
  BY DEF WriteManifest
<1>4. HandOver => job'.kind = "handed"
  BY DEF HandOver
<1>5. RecordStreams \/ RecordArrival \/ RecordRows => job'.kind = "source"
  <2>1. ASSUME NEW a, NEW p, NEW f, NEW t, NEW s, NEW c, NEW b, NEW r
        PROVE  Recorded(a, p, f, t, s, c, b, r).kind = "source"
    BY DEF Recorded
  <2>2. RecordStreams => job'.kind = "source"
    BY <2>1 DEF RecordStreams
  <2>3. RecordArrival => job'.kind = "source"
    BY <2>1 DEF RecordArrival
  <2>4. RecordRows => job'.kind = "source"
    BY <2>1 DEF RecordRows
  <2> QED
    BY <2>2, <2>3, <2>4
<1>6. ReadNaming => job'.kind = "naming"
  BY DEF ReadNaming
<1>7. FlagRenditions => job'.kind = "flags"
  BY DEF FlagRenditions
<1>8. WritePlaylist => job'.kind = "playlist"
  BY DEF WritePlaylist, Playlist
<1>9. OpenSession \/ CallAgain => job'.kind = "session"
  BY DEF OpenSession, CallAgain, CallCatalog, SessionJob
<1>10. StartProcess => job'.kind = "process"
  <2> SUFFICES ASSUME StartProcess  PROVE job'.kind = "process"
    OBVIOUS
  <2>1. PICK c, t, a, p, r : job' = [kind |-> "process", configs |-> c, topic |-> t, answers |-> a,
                                     payloads |-> p, reporter |-> r]
    BY Zenon DEF StartProcess
  <2> QED
    BY <2>1
<1> QED
  BY <1>1, <1>2, <1>3, <1>4, <1>5, <1>6, <1>7, <1>8, <1>9, <1>10 DEF Writing

\* Only these take or change the jobs that the theorems below are about.
LEMMA OtherKinds ==
  ASSUME Next, ~ PlanAudio, ~ RecordSubtitles, ~ RecordMedia,
         ~ CloseChain, ~ ChangeFolder, ~ CloseLater
  PROVE  job'.kind \notin {"audio", "record", "chain"}
BY PlanKinds, ReadingKinds, WritingKinds DEF Next, Reading

\* Only these take the jobs of sessions and processes.
LEMMA OtherCalls ==
  ASSUME Next, ~ OpenSession, ~ CallAgain, ~ StartProcess
  PROVE  job'.kind \notin {"session", "process"}
BY PlanKinds, ReadingKinds, WritingKinds DEF Next, Reading

(***************************************************************************)
(* The chain of a folder.                                                  *)
(***************************************************************************)

\* What a listing may list, and what an object may say of one.
Listable == ({"version.json"} \cup FileNames) \X Contents
Listings == SUBSET Listable
Objects == {Checksums(l, pending) : l \in Listings, pending \in BOOLEAN}

Folders ==
  [record : Contents, pkg : Packages, attached : SUBSET {"right", "wrong"},
   sums : SUBSET Listings, package : SUBSET Objects, complete : SUBSET Objects]

\* A folder whose chain was closed over it, pending or not.
ClosedOver(s, pending) ==
  LET cs == Checksums(Listed(s), pending)
  IN s.package = {cs} /\ s.complete = {cs} /\ s.sums = (IF pending THEN {} ELSE {Listed(s)})

\* A folder that has no more of the chain than s was closed with.
NoMore(f, s) ==
  /\ f.sums \subseteq s.sums /\ f.package \subseteq s.package /\ f.complete \subseteq s.complete

\* A folder whose pending chain a fill left half replaced.
HalfFilled(f, s) ==
  /\ f.sums # s.sums \/ f.package # s.package
  /\ ChainProblems(f, FALSE) # {}

\* The inductive invariant: of a folder that was never closed .complete is not
\* there; of one that was, the chain is what it was closed with or less of it,
\* but where a fill was cut off, and then nothing happens to it any more.
ChainInv ==
  job.kind = "chain" =>
    /\ job.folder \in Folders /\ job.shut \subseteq Folders
    /\ job.shut = {} => job.folder.complete = {}
    /\ \A s \in job.shut :
         /\ \E pending \in BOOLEAN : ClosedOver(s, pending)
         /\ \/ NoMore(job.folder, s)
            \/ HalfFilled(job.folder, s) /\ job.edits = MaxEdits

\* What a folder lists is one of its listings.
LEMMA ListedFiles ==
  ASSUME NEW r \in Contents, NEW p \in Packages, NEW f, f.record = r, f.pkg = p
  PROVE  Listed(f) \in Listings
<1>1. PICK S \in SUBSET FileNames : p \in [S -> Contents]
  BY DEF Packages
<1>2. \A n \in DOMAIN p : n \in FileNames /\ p[n] \in Contents
  BY <1>1
<1> QED
  BY <1>2 DEF Listed, Listings, Listable

\* What the objects say.
LEMMA ObjectSays ==
  ASSUME NEW l, NEW pending \in BOOLEAN
  PROVE  LET cs == Checksums(l, pending)
         IN /\ cs.pending = pending
            /\ cs.names = (IF pending THEN {} ELSE {l})
            /\ cs.files = Cardinality(l) /\ cs.bytes = Total(l)
<1>1. CASE pending
  BY <1>1 DEF Checksums
<1>2. CASE ~ pending
  BY <1>2 DEF Checksums
<1> QED
  BY <1>1, <1>2

\* A new folder has a record and a package, and no files of its chain yet.
LEMMA NewFolderType ==
  ASSUME NEW r \in Contents, NEW p \in Packages
  PROVE  /\ NewFolder(r, p) \in Folders
         /\ NewFolder(r, p).sums = {} /\ NewFolder(r, p).package = {}
         /\ NewFolder(r, p).complete = {}
BY DEF NewFolder, Folders

\* A folder over what f holds, with this chain.
FolderWith(w, f, sums, package, complete) ==
  /\ w \in Folders /\ w.record = f.record /\ w.pkg = f.pkg /\ Listed(w) = Listed(f)
  /\ w.sums = sums /\ w.package = package /\ w.complete = complete

\* The writes of a closing.
LEMMA ClosingWrites ==
  \A f \in Folders : \A pending \in BOOLEAN : \E a, b, c :
    LET cs == Checksums(Listed(f), pending)
        sums == IF pending THEN f.sums ELSE {Listed(f)}
    IN /\ Closing(f, pending) = <<a, b, c>>
       /\ FolderWith(a, f, sums, f.package, f.complete)
       /\ FolderWith(b, f, sums, {cs}, f.complete)
       /\ FolderWith(c, f, sums, {cs}, {cs})
<1> SUFFICES ASSUME NEW f \in Folders, NEW pending \in BOOLEAN
             PROVE  \E a, b, c :
                      LET cs == Checksums(Listed(f), pending)
                          sums == IF pending THEN f.sums ELSE {Listed(f)}
                      IN /\ Closing(f, pending) = <<a, b, c>>
                         /\ FolderWith(a, f, sums, f.package, f.complete)
                         /\ FolderWith(b, f, sums, {cs}, f.complete)
                         /\ FolderWith(c, f, sums, {cs}, {cs})
  BY Zenon
<1> DEFINE cs == Checksums(Listed(f), pending)
           summed == IF pending THEN f ELSE [f EXCEPT !.sums = {Listed(f)}]
           named == [summed EXCEPT !.package = {cs}]
           marked == [named EXCEPT !.complete = {cs}]
<1>1. Listed(f) \in Listings
  BY ListedFiles DEF Folders
<1>2. cs \in Objects
  BY <1>1 DEF Objects
<1>3. /\ summed \in Folders /\ summed.package = f.package /\ summed.complete = f.complete
      /\ summed.record = f.record /\ summed.pkg = f.pkg
      /\ summed.sums = (IF pending THEN f.sums ELSE {Listed(f)})
  BY <1>1 DEF Folders
<1> HIDE DEF cs, summed
<1>4. /\ named \in Folders /\ named.package = {cs} /\ named.complete = f.complete
      /\ named.record = f.record /\ named.pkg = f.pkg /\ named.sums = summed.sums
  BY <1>2, <1>3 DEF Folders
<1> HIDE DEF named
<1>5. /\ marked \in Folders /\ marked.package = {cs} /\ marked.complete = {cs}
      /\ marked.record = f.record /\ marked.pkg = f.pkg /\ marked.sums = summed.sums
  BY <1>2, <1>4 DEF Folders
<1> HIDE DEF marked
<1>6. Closing(f, pending) = <<summed, named, marked>>
  BY DEF Closing, summed, named, marked, cs
<1>7. Listed(summed) = Listed(f) /\ Listed(named) = Listed(f) /\ Listed(marked) = Listed(f)
  BY <1>3, <1>4, <1>5 DEF Listed
<1>8. /\ FolderWith(summed, f, IF pending THEN f.sums ELSE {Listed(f)}, f.package, f.complete)
      /\ FolderWith(named, f, IF pending THEN f.sums ELSE {Listed(f)}, {cs}, f.complete)
      /\ FolderWith(marked, f, IF pending THEN f.sums ELSE {Listed(f)}, {cs}, {cs})
  BY <1>3, <1>4, <1>5, <1>7 DEF FolderWith
<1> QED
  BY <1>6, <1>8, Zenon DEF cs

\* Whatever happens to a folder adds nothing to its chain.
LEMMA EditedLess ==
  ASSUME NEW f \in Folders, NEW g \in Edited(f)
  PROVE  g \in Folders /\ NoMore(g, f)
<1>1. CASE \E c \in Contents : g = [f EXCEPT !.record = c]
  BY <1>1 DEF Folders, NoMore
<1>2. CASE \E p \in Packages : g = [f EXCEPT !.pkg = p]
  BY <1>2 DEF Folders, NoMore
<1>3. CASE \E a \in {"right", "wrong"} : g = [f EXCEPT !.attached = @ \cup {a}]
  BY <1>3 DEF Folders, NoMore
<1>4. CASE g = [f EXCEPT !.sums = {}]
  BY <1>4 DEF Folders, NoMore
<1>5. CASE g = [f EXCEPT !.package = {}]
  BY <1>5 DEF Folders, NoMore
<1>6. CASE g = [f EXCEPT !.complete = {}]
  BY <1>6 DEF Folders, NoMore
<1> QED
  BY <1>1, <1>2, <1>3, <1>4, <1>5, <1>6 DEF Edited

\* What a chain that holds names, where it can name one object.
LEMMA QuietNames ==
  ASSUME NEW f, NEW cs, NEW full \in BOOLEAN,
         f.package \subseteq {cs}, f.complete \subseteq {cs}, cs.pending \in BOOLEAN,
         ChainProblems(f, full) = {}
  PROVE  /\ f.package = {cs} /\ f.complete = {cs}
         /\ cs.pending => OpenProblems(f, cs) = {}
         /\ ~ cs.pending => f.sums # {} /\ ClosedProblems(f, cs, full) = {}
         /\ AttachedProblems(f, full) = {}
<1>1. f.complete # {} /\ f.package # {}
  BY DEF ChainProblems
<1>2. f.package = {cs} /\ f.complete = {cs}
  BY <1>1
<1>3. (CHOOSE c \in f.package : TRUE) = cs
  BY <1>2
<1>4. CASE cs.pending
  <2>1. OpenProblems(f, cs) \cup AttachedProblems(f, full) = {}
    BY <1>1, <1>2, <1>3, <1>4 DEF ChainProblems
  <2> QED
    BY <1>2, <1>4, <2>1
<1>5. CASE ~ cs.pending
  <2>1. f.sums # {} /\ ClosedProblems(f, cs, full) \cup AttachedProblems(f, full) = {}
    BY <1>1, <1>2, <1>3, <1>5 DEF ChainProblems
  <2> QED
    BY <1>2, <1>5, <2>1
<1> QED
  BY <1>4, <1>5

\* And the other way: it holds where there is nothing to say.
LEMMA NamesQuiet ==
  ASSUME NEW f, NEW cs, NEW full \in BOOLEAN,
         f.package = {cs}, f.complete = {cs}, cs.pending \in BOOLEAN,
         cs.pending => OpenProblems(f, cs) = {},
         ~ cs.pending => f.sums # {} /\ ClosedProblems(f, cs, full) = {}
  PROVE  ChainProblems(f, full) = AttachedProblems(f, full)
<1>1. (CHOOSE c \in f.package : TRUE) = cs
  OBVIOUS
<1>2. CASE cs.pending
  BY <1>1, <1>2 DEF ChainProblems
<1>3. CASE ~ cs.pending
  BY <1>1, <1>3 DEF ChainProblems
<1> QED
  BY <1>2, <1>3

\* An open folder has no problem where its two numbers are right and nothing is
\* summed.
LEMMA Open ==
  ASSUME NEW f, NEW cs
  PROVE  OpenProblems(f, cs) = {} <=>
           f.sums = {} /\ Cardinality(Listed(f)) = cs.files /\ Total(Listed(f)) = cs.bytes
BY DEF OpenProblems, Present

\* A closed chain over the listing l.
LEMMA Closed ==
  ASSUME NEW f, NEW l, NEW cs, NEW full \in BOOLEAN,
         f.sums = {l}, cs.names = {l}, cs.files = Cardinality(l), cs.bytes = Total(l)
  PROVE  ClosedProblems(f, cs, full) = {} <=>
           /\ Names(Listed(f)) = Names(l)
           /\ Total(Listed(f)) = Total(l)
           /\ <<"version.json", f.record>> \in l
           /\ full => Listed(f) \subseteq l
<1> DEFINE listing == UNION f.sums
           here == {e \in Present(f) : e[1] \in Names(listing)}
           CP == ClosedProblems(f, cs, full)
           kinds == {"sums", "unlisted", "gone", "files", "bytes", "record", "digest"}
           wrong(p) == CASE p = "sums" -> f.sums # cs.names
                         [] p = "unlisted" -> ~ Names(Present(f)) \subseteq Names(listing)
                         [] p = "gone" -> ~ Names(listing) \subseteq Names(Present(f))
                         [] p = "files" -> Cardinality(listing) # cs.files
                         [] p = "bytes" -> Total(here) # cs.bytes
                         [] p = "record" -> <<"version.json", f.record>> \notin listing
                         [] OTHER -> full /\ ~ here \subseteq listing
<1>1. CP = {p \in kinds : wrong(p)}
  BY DEF ClosedProblems
<1>2. listing = l
  OBVIOUS
<1>3. Names(Listed(f)) \subseteq Names(l) => here = Listed(f)
  BY <1>2 DEF Names, Present
<1>4. /\ wrong("sums") = FALSE /\ wrong("files") = FALSE
      /\ wrong("unlisted") <=> ~ Names(Listed(f)) \subseteq Names(l)
      /\ wrong("gone") <=> ~ Names(l) \subseteq Names(Listed(f))
      /\ wrong("bytes") <=> Total(here) # Total(l)
      /\ wrong("record") <=> <<"version.json", f.record>> \notin l
      /\ wrong("digest") <=> full /\ ~ here \subseteq l
  <2> HIDE DEF here, listing
  <2> QED
    BY <1>2 DEF Present
<1> HIDE DEF wrong, CP, here, listing
<1>5. CP = {} <=> \A p \in kinds : ~ wrong(p)
  BY <1>1
<1>6. CP = {} <=> /\ Names(Listed(f)) \subseteq Names(l) /\ Names(l) \subseteq Names(Listed(f))
                  /\ Total(here) = Total(l)
                  /\ <<"version.json", f.record>> \in l
                  /\ full => here \subseteq l
  BY <1>4, <1>5
<1> QED
  BY <1>3, <1>6 DEF CP

\* A folder lists a name once, the record's apart from the files'.
LEMMA ListedOnce ==
  ASSUME NEW f \in Folders
  PROVE  /\ Names(Listed(f)) = {"version.json"} \cup DOMAIN f.pkg
         /\ "version.json" \notin DOMAIN f.pkg
         /\ \A d, e \in Listed(f) : d[1] = e[1] => d = e
         /\ <<"version.json", f.record>> \in Listed(f)
         /\ \A r : <<"version.json", r>> \in Listed(f) => r = f.record
<1>1. PICK S \in SUBSET FileNames : f.pkg \in [S -> Contents]
  BY DEF Folders, Packages
<1>2. DOMAIN f.pkg \subseteq FileNames /\ "version.json" \notin DOMAIN f.pkg
  BY <1>1, PlansAssumption
<1>3. \A e : e \in Listed(f) <=> \/ e = <<"version.json", f.record>>
                                 \/ \E n \in DOMAIN f.pkg : e = <<n, f.pkg[n]>>
  BY DEF Listed
<1>4. Names(Listed(f)) = {"version.json"} \cup DOMAIN f.pkg
  <2>1. \A e \in Listed(f) : e[1] \in {"version.json"} \cup DOMAIN f.pkg
    BY <1>3
  <2>2. \A n \in {"version.json"} \cup DOMAIN f.pkg : \E e \in Listed(f) : n = e[1]
    <3>1. <<"version.json", f.record>> \in Listed(f)
      BY <1>3
    <3>2. \A n \in DOMAIN f.pkg : <<n, f.pkg[n]>> \in Listed(f)
      BY <1>3
    <3> QED
      BY <3>1, <3>2
  <2> QED
    BY <2>1, <2>2 DEF Names
<1>5. \A d, e \in Listed(f) : d[1] = e[1] => d = e
  BY <1>2, <1>3
<1> QED
  BY <1>2, <1>3, <1>4, <1>5

\* So it lists as many files as names.
LEMMA ListedCount ==
  ASSUME NEW f \in Folders
  PROVE  Cardinality(Listed(f)) = Cardinality(Names(Listed(f)))
<1> DEFINE L == Listed(f)
           g == [n \in Names(L) |-> CHOOSE e \in L : e[1] = n]
<1>1. IsFiniteSet(Names(L))
  <2>1. DOMAIN f.pkg \in SUBSET FileNames
    BY DEF Folders, Packages
  <2>2. IsFiniteSet(DOMAIN f.pkg)
    BY <2>1, FS_Subset, PlansAssumption
  <2>3. IsFiniteSet({"version.json"}) /\ IsFiniteSet({"version.json"} \cup DOMAIN f.pkg)
    BY <2>2, FS_Singleton, FS_Union
  <2> QED
    BY <2>3, ListedOnce
<1>2. \A n \in Names(L) : g[n] \in L /\ g[n][1] = n
  BY DEF Names
<1>3. \A e \in L : e[1] \in Names(L) /\ g[e[1]] = e
  BY ListedOnce DEF Names
<1> HIDE DEF g, L
<1>4. g \in Bijection(Names(L), L)
  <2>1. g \in [Names(L) -> L]
    BY <1>2 DEF g
  <2> QED
    BY <1>2, <1>3, <2>1 DEF Bijection, Injection, Surjection, IsInjective
<1>5. ExistsBijection(Names(L), L)
  BY <1>4 DEF ExistsBijection
<1> QED
  BY <1>1, <1>5, FS_Bijection DEF L

\* A pending chain is filled where it holds, by a closing of what was hashed.
LEMMA FillWrites ==
  ASSUME NEW f, NEW hashed \in Folders, NEW k \in DOMAIN FillChecksums(f, hashed)
  PROVE  /\ ChecksumsPending(f) /\ ChainProblems(f, FALSE) = {}
         /\ FillChecksums(f, hashed) = Closing(hashed, FALSE) /\ k \in 1 .. 3
<1>1. FillChecksums(f, hashed) # << >>
  OBVIOUS
<1>2. /\ ChecksumsPending(f) /\ ChainProblems(f, FALSE) = {}
      /\ FillChecksums(f, hashed) = Closing(hashed, FALSE)
  BY <1>1 DEF FillChecksums
<1>3. DOMAIN Closing(hashed, FALSE) = 1 .. 3
  <2>1. PICK a, b, c : Closing(hashed, FALSE) = <<a, b, c>>
    BY ClosingWrites, Zenon
  <2>2. DOMAIN <<a, b, c>> = 1 .. 3
    OBVIOUS
  <2> QED
    BY <2>1, <2>2, Zenon
<1> QED
  BY <1>2, <1>3

\* A folder that is closed holds no other chain than it was closed with.
LEMMA ShutAsClosed ==
  ASSUME NEW s, NEW pending \in BOOLEAN, ClosedOver(s, pending)
  PROVE  /\ ChecksumsPending(s) = pending
         /\ NoMore(s, s)
<1>1. Checksums(Listed(s), pending).pending = pending
  BY ObjectSays
<1> QED
  BY <1>1 DEF ClosedOver, ChecksumsPending, NoMore

\* A run that stops between two writes of closing a chain.
LEMMA CloseChainStep ==
  ASSUME CloseChain  PROVE ChainInv'
<1>1. PICK record \in Contents, pkg \in Packages, pending \in BOOLEAN, made \in 0 .. 3 :
        LET writes == <<NewFolder(record, pkg)>> \o Closing(NewFolder(record, pkg), pending)
        IN job' = Folder(writes[made + 1], IF made = 3 THEN {writes[4]} ELSE {}, 0)
  BY DEF CloseChain
<1> DEFINE new == NewFolder(record, pkg)
           cs == Checksums(Listed(new), pending)
           sums == IF pending THEN {} ELSE {Listed(new)}
<1>2. new \in Folders /\ new.sums = {} /\ new.package = {} /\ new.complete = {}
  BY NewFolderType
<1> HIDE DEF new
<1>3. PICK a, b, c : /\ Closing(new, pending) = <<a, b, c>>
                     /\ FolderWith(a, new, sums, {}, {}) /\ FolderWith(b, new, sums, {cs}, {})
                     /\ FolderWith(c, new, sums, {cs}, {cs})
  <2>1. PICK a, b, c : /\ Closing(new, pending) = <<a, b, c>>
                       /\ FolderWith(a, new, IF pending THEN new.sums ELSE {Listed(new)},
                               new.package, new.complete)
                       /\ FolderWith(b, new, IF pending THEN new.sums ELSE {Listed(new)},
                               {cs}, new.complete)
                       /\ FolderWith(c, new, IF pending THEN new.sums ELSE {Listed(new)}, {cs}, {cs})
    BY <1>2, ClosingWrites, Zenon
  <2> QED
    BY <1>2, <2>1
<1>4. ClosedOver(c, pending)
  BY <1>3 DEF FolderWith, ClosedOver
<1> DEFINE w == <<new>> \o <<a, b, c>>
<1>5. w[1] = new /\ w[2] = a /\ w[3] = b /\ w[4] = c
  OBVIOUS
<1> HIDE DEF w
<1>6. job' = Folder(w[made + 1], IF made = 3 THEN {w[4]} ELSE {}, 0)
  BY <1>1, <1>3 DEF new, w
<1>7. CASE made = 3
  <2>1. job' = Folder(c, {c}, 0)
    BY <1>5, <1>6, <1>7
  <2> QED
    BY <2>1, <1>3, <1>4, ShutAsClosed DEF ChainInv, Folder, FolderWith
<1>8. CASE made # 3
  <2>1. PICK f \in {new, a, b} : job' = Folder(f, {}, 0)
    BY <1>5, <1>6, <1>8
  <2>2. f \in Folders /\ f.complete = {}
    BY <1>2, <1>3 DEF FolderWith
  <2> QED
    BY <2>1, <2>2 DEF ChainInv, Folder
<1> QED
  BY <1>7, <1>8

\* Someone edits a folder.
LEMMA ChangeFolderStep ==
  ASSUME ChainInv, ChangeFolder  PROVE ChainInv'
<1>1. PICK g \in Edited(job.folder) : job' = Folder(g, job.shut, job.edits + 1)
  BY DEF ChangeFolder
<1>2. job.kind = "chain" /\ job.edits < MaxEdits /\ job.edits # MaxEdits
  BY PlansAssumption DEF ChangeFolder
<1>3. job.folder \in Folders
  BY <1>2 DEF ChainInv
<1>4. g \in Folders /\ NoMore(g, job.folder)
  BY <1>3, EditedLess
<1>5. /\ job'.kind = "chain" /\ job'.folder = g /\ job'.shut = job.shut
  BY <1>1 DEF Folder
<1>6. \A s \in job.shut : NoMore(g, s)
  BY <1>2, <1>4 DEF ChainInv, NoMore
<1>7. job.shut = {} => g.complete = {}
  BY <1>2, <1>4 DEF ChainInv, NoMore
<1> QED
  BY <1>2, <1>4, <1>5, <1>6, <1>7 DEF ChainInv

\* A fill that was cut off is told from the chain it was to replace.
LEMMA CutOff ==
  ASSUME NEW s, NEW f, ClosedOver(s, TRUE), f.complete \subseteq s.complete,
         \/ f.sums # {} /\ f.package \subseteq s.package
         \/ \E cs : f.package = {cs} /\ cs.pending = FALSE
  PROVE  HalfFilled(f, s)
<1> DEFINE cs == Checksums(Listed(s), TRUE)
<1>1. cs.pending = TRUE
  BY ObjectSays, Zenon
<1>2. s.package = {cs} /\ s.complete = {cs} /\ s.sums = {}
  BY DEF ClosedOver
<1> HIDE DEF cs
<1>3. CASE f.sums # {} /\ f.package \subseteq s.package
  <2>1. ASSUME ChainProblems(f, FALSE) = {}  PROVE FALSE
    <3>1. OpenProblems(f, cs) = {}
      BY <1>1, <1>2, <1>3, <2>1, QuietNames
    <3> QED
      BY <1>3, <3>1, Open
  <2> QED
    BY <1>2, <1>3, <2>1 DEF HalfFilled
<1>4. CASE \E other : f.package = {other} /\ other.pending = FALSE
  <2>1. f.package # s.package /\ f.complete # f.package
    BY <1>1, <1>2, <1>4
  <2>2. ChainProblems(f, FALSE) # {}
    BY <2>1 DEF ChainProblems
  <2> QED
    BY <2>1, <2>2 DEF HalfFilled
<1> QED
  BY <1>3, <1>4

\* The repair fills in what is missing, one write after another.
LEMMA CloseLaterStep ==
  ASSUME ChainInv, CloseLater  PROVE ChainInv'
<1> DEFINE f == job.folder
           IsIn(h) == h = f \/ h \in Edited(f)
<1>1. PICK hashed : IsIn(hashed) /\ \E made \in DOMAIN FillChecksums(f, hashed) :
        LET writes == FillChecksums(f, hashed)
        IN job' = Folder(writes[made], IF made = 3 THEN {writes[made]} ELSE job.shut, MaxEdits)
  BY DEF CloseLater
<1>2. job.kind = "chain"
  BY DEF CloseLater
<1>3. f \in Folders /\ job.shut \subseteq Folders
  BY <1>2 DEF ChainInv
<1>4. hashed \in Folders /\ NoMore(hashed, f)
  BY <1>1, <1>3, EditedLess DEF NoMore
<1>5. PICK made \in 1 .. 3 :
        /\ ChecksumsPending(f) /\ ChainProblems(f, FALSE) = {}
        /\ job' = Folder(Closing(hashed, FALSE)[made],
                         IF made = 3 THEN {Closing(hashed, FALSE)[made]} ELSE job.shut, MaxEdits)
  BY <1>1, <1>4, FillWrites, Zenon
<1> DEFINE cs == Checksums(Listed(hashed), FALSE)
           w == Closing(hashed, FALSE)
<1> HIDE DEF f
<1>6. PICK a, b, c : /\ w = <<a, b, c>>
                     /\ FolderWith(a, hashed, {Listed(hashed)}, hashed.package, hashed.complete)
                     /\ FolderWith(b, hashed, {Listed(hashed)}, {cs}, hashed.complete)
                     /\ FolderWith(c, hashed, {Listed(hashed)}, {cs}, {cs})
  BY <1>4, ClosingWrites, Zenon
<1>7. cs.pending = FALSE
  BY ObjectSays, Zenon
<1>8. ASSUME NEW s \in job.shut
      PROVE  ClosedOver(s, TRUE) /\ NoMore(hashed, s)
  <2>1. NoMore(f, s) /\ \E pending \in BOOLEAN : ClosedOver(s, pending)
    BY <1>2, <1>5 DEF ChainInv, HalfFilled, f
  <2>2. ~ ClosedOver(s, FALSE)
    <3>1. SUFFICES ASSUME ClosedOver(s, FALSE)  PROVE FALSE
      OBVIOUS
    <3>2. ~ ChecksumsPending(s)
      BY <3>1, ShutAsClosed, Zenon
    <3> QED
      BY <1>5, <2>1, <3>2 DEF ChecksumsPending, NoMore
  <2> QED
    BY <1>4, <2>1, <2>2 DEF NoMore
<1>9. job.shut # {}
  <2>1. f.complete # {}
    BY <1>5 DEF ChainProblems
  <2> QED
    BY <1>2, <2>1 DEF ChainInv, f
<1>10. job' = Folder(w[made], IF made = 3 THEN {w[made]} ELSE job.shut, MaxEdits)
  BY <1>5
<1>11. ClosedOver(c, FALSE)
  BY <1>6, Zenon DEF FolderWith, ClosedOver
<1> HIDE DEF w, cs
<1>12. CASE made # 3
  <2>1. PICK g \in {a, b} : job' = Folder(g, job.shut, MaxEdits)
    BY <1>6, <1>10, <1>12
  <2>2. g \in Folders
    BY <1>6 DEF FolderWith
  <2>3. \A s \in job.shut : HalfFilled(g, s)
    <3>1. CASE g = a
      BY <1>6, <1>8, <3>1, CutOff DEF FolderWith, NoMore
    <3>2. CASE g = b
      BY <1>6, <1>7, <1>8, <3>2, CutOff DEF FolderWith, NoMore
    <3> QED
      BY <3>1, <3>2
  <2> QED
    BY <1>3, <1>8, <1>9, <2>1, <2>2, <2>3 DEF ChainInv, Folder
<1>13. CASE made = 3
  <2>1. job' = Folder(c, {c}, MaxEdits)
    BY <1>6, <1>10, <1>13
  <2> QED
    BY <1>6, <1>11, <2>1, ShutAsClosed DEF ChainInv, Folder, FolderWith
<1> QED
  BY <1>12, <1>13

\* THEOREM: the invariant.
THEOREM ChainInvariance == Spec => []ChainInv
<1>1. Init => ChainInv
  BY DEF Init, ChainInv
<1>2. ChainInv /\ [Next]_job => ChainInv'
  <2> SUFFICES ASSUME ChainInv, [Next]_job  PROVE ChainInv'
    OBVIOUS
  <2>1. CASE UNCHANGED job
    BY <2>1 DEF ChainInv
  <2>2. CASE CloseChain
    BY <2>2, CloseChainStep
  <2>3. CASE ChangeFolder
    BY <2>3, ChangeFolderStep
  <2>4. CASE CloseLater
    BY <2>4, CloseLaterStep
  <2>5. CASE job'.kind # "chain"
    BY <2>5 DEF ChainInv
  <2> QED
    BY <2>1, <2>2, <2>3, <2>4, <2>5, PlanKinds, OtherKinds
<1> QED
  BY <1>1, <1>2, PTL DEF Spec

\* What a chain doesn't find without reading the files it doesn't find less of
\* by reading them.
LEMMA FullFindsMore ==
  ASSUME NEW f, ChainProblems(f, TRUE) = {}  PROVE ChainProblems(f, FALSE) = {}
<1> DEFINE cs == CHOOSE c \in f.package : TRUE
<1>1. f.complete # {} /\ f.package # {} /\ f.complete = f.package
  BY DEF ChainProblems
<1>2. AttachedProblems(f, FALSE) = {}
  BY DEF AttachedProblems
<1>3. ClosedProblems(f, cs, FALSE) \subseteq ClosedProblems(f, cs, TRUE)
  BY DEF ClosedProblems
<1>4. CASE cs.pending
  <2>1. OpenProblems(f, cs) = {}
    BY <1>1, <1>4 DEF ChainProblems
  <2> QED
    BY <1>1, <1>2, <1>4, <2>1 DEF ChainProblems
<1>5. CASE ~ cs.pending
  <2>1. f.sums # {} /\ ClosedProblems(f, cs, TRUE) = {}
    BY <1>1, <1>5 DEF ChainProblems
  <2> QED
    BY <1>1, <1>2, <1>3, <1>5, <2>1 DEF ChainProblems
<1> QED
  BY <1>4, <1>5

\* A chain that is no more than s was closed with, and holds: what it tells.
LEMMA QuietTells ==
  ASSUME NEW f \in Folders, NEW s \in Folders, NEW full \in BOOLEAN, NEW pending \in BOOLEAN,
         ClosedOver(s, pending), NoMore(f, s), ChainProblems(f, full) = {}
  PROVE  /\ ChecksumsPending(f) <=> pending
         /\ Cardinality(Listed(f)) = Cardinality(Listed(s)) /\ Total(Listed(f)) = Total(Listed(s))
         /\ ~ pending => /\ f.record = s.record /\ DOMAIN f.pkg = DOMAIN s.pkg
                         /\ full => Listed(f) = Listed(s)
<1> DEFINE cs == Checksums(Listed(s), pending)
<1>1. /\ cs.pending = pending /\ cs.names = (IF pending THEN {} ELSE {Listed(s)})
      /\ cs.files = Cardinality(Listed(s)) /\ cs.bytes = Total(Listed(s))
  BY ObjectSays, Zenon
<1>2. /\ f.package \subseteq {cs} /\ f.complete \subseteq {cs}
      /\ f.sums \subseteq (IF pending THEN {} ELSE {Listed(s)})
  BY Zenon DEF ClosedOver, NoMore
<1> HIDE DEF cs
<1>3. /\ f.package = {cs} /\ f.complete = {cs}
      /\ pending => OpenProblems(f, cs) = {}
      /\ ~ pending => f.sums # {} /\ ClosedProblems(f, cs, full) = {}
  BY <1>1, <1>2, QuietNames
<1>4. ChecksumsPending(f) <=> pending
  BY <1>1, <1>3 DEF ChecksumsPending
<1>5. CASE pending
  BY <1>1, <1>3, <1>4, <1>5, Open
<1>6. CASE ~ pending
  <2>1. f.sums = {Listed(s)}
    BY <1>2, <1>3, <1>6
  <2>2. /\ Names(Listed(f)) = Names(Listed(s))
        /\ Total(Listed(f)) = Total(Listed(s))
        /\ <<"version.json", f.record>> \in Listed(s)
        /\ full => Listed(f) \subseteq Listed(s)
    BY <1>1, <1>3, <1>6, <2>1, Closed
  <2>3. Cardinality(Listed(f)) = Cardinality(Listed(s))
    BY <2>2, ListedCount
  <2>4. f.record = s.record
    BY <2>2, ListedOnce
  <2>5. DOMAIN f.pkg = DOMAIN s.pkg
    BY <2>2, ListedOnce
  <2>6. ASSUME full  PROVE Listed(s) \subseteq Listed(f)
    <3>1. SUFFICES ASSUME NEW e \in Listed(s)  PROVE e \in Listed(f)
      OBVIOUS
    <3>2. PICK d \in Listed(f) : d[1] = e[1]
      BY <2>2 DEF Names
    <3> QED
      BY <2>2, <2>6, <3>2, ListedOnce
  <2> QED
    BY <1>4, <1>6, <2>2, <2>3, <2>4, <2>5, <2>6
<1> QED
  BY <1>5, <1>6

\* A folder that is as its chain was closed over it: it holds, but for a wrong
\* subtitle that is read in full.
LEMMA AsClosed ==
  ASSUME NEW f \in Folders, NEW s \in Folders, NEW full \in BOOLEAN, NEW pending \in BOOLEAN,
         ClosedOver(s, pending), f = [s EXCEPT !.attached = f.attached]
  PROVE  ChainProblems(f, full) = AttachedProblems(f, full)
<1> DEFINE cs == Checksums(Listed(s), pending)
<1>1. /\ cs.pending = pending /\ cs.names = (IF pending THEN {} ELSE {Listed(s)})
      /\ cs.files = Cardinality(Listed(s)) /\ cs.bytes = Total(Listed(s))
  BY ObjectSays, Zenon
<1>2. /\ f.record = s.record /\ f.pkg = s.pkg
      /\ f.sums = s.sums /\ f.package = s.package /\ f.complete = s.complete
  BY DEF Folders
<1>3. Listed(f) = Listed(s)
  BY <1>2 DEF Listed
<1>4. f.package = {cs} /\ f.complete = {cs} /\ f.sums = (IF pending THEN {} ELSE {Listed(s)})
  BY <1>2, Zenon DEF ClosedOver
<1> HIDE DEF cs
<1>5. pending => OpenProblems(f, cs) = {}
  BY <1>1, <1>3, <1>4, Open
<1>6. ASSUME ~ pending  PROVE f.sums # {} /\ ClosedProblems(f, cs, full) = {}
  <2>1. f.sums = {Listed(s)} /\ cs.names = {Listed(s)}
    BY <1>1, <1>4, <1>6
  <2>2. <<"version.json", f.record>> \in Listed(s)
    BY <1>3, ListedOnce
  <2> QED
    BY <1>1, <1>3, <2>1, <2>2, Closed
<1> QED
  BY <1>1, <1>4, <1>5, <1>6, NamesQuiet

\* What is attached adds a problem only where it is checked and wrong.
LEMMA AttachedSays ==
  ASSUME NEW f
  PROVE  /\ AttachedProblems(f, FALSE) = {}
         /\ AttachedProblems(f, TRUE) = {} <=> "wrong" \notin f.attached
BY DEF AttachedProblems

\* THEOREM: a chain that holds says what the folder is, after whatever has
\* happened to it, whatever its files, for a folder of any number of files
\* (chain_problems, close_chain, fill_checksums).
THEOREM ChainAlwaysTells == Spec => []ChainTells
<1>1. ChainInv => ChainTells
  <2> SUFFICES ASSUME ChainInv, job.kind = "chain"  PROVE ChainTells
    BY DEF ChainTells
  <2> DEFINE f == job.folder
             quiet(full) == ChainProblems(f, full) = {}
  <2>1. f \in Folders /\ job.shut \subseteq Folders
    BY DEF ChainInv
  <2>2. quiet(FALSE) => job.shut # {}
    <3>1. quiet(FALSE) => f.complete # {}
      BY DEF ChainProblems
    <3> QED
      BY <3>1 DEF ChainInv
  <2>3. ASSUME NEW s \in job.shut
        PROVE  /\ quiet(FALSE) => /\ Cardinality(Listed(f)) = Cardinality(Listed(s))
                                  /\ Total(Listed(f)) = Total(Listed(s))
               /\ quiet(FALSE) /\ ~ ChecksumsPending(f) =>
                    f.record = s.record /\ DOMAIN f.pkg = DOMAIN s.pkg
               /\ quiet(TRUE) /\ ~ ChecksumsPending(f) => Listed(f) = Listed(s)
               /\ f = [s EXCEPT !.attached = f.attached] =>
                    quiet(FALSE) /\ quiet(TRUE) = ("wrong" \notin f.attached)
    <3>1. s \in Folders
      BY <2>1
    <3>2. PICK pending \in BOOLEAN : ClosedOver(s, pending)
      BY DEF ChainInv
    <3>3. CASE HalfFilled(f, s)
      <4>1. ~ quiet(FALSE) /\ ~ quiet(TRUE)
        BY <3>3, FullFindsMore DEF HalfFilled
      <4>2. f # [s EXCEPT !.attached = f.attached]
        BY <3>1, <3>3 DEF HalfFilled, Folders
      <4> QED
        BY <4>1, <4>2
    <3>4. CASE NoMore(f, s)
      <4> HIDE DEF f
      <4>1. quiet(FALSE) =>
              /\ ChecksumsPending(f) <=> pending
              /\ Cardinality(Listed(f)) = Cardinality(Listed(s))
              /\ Total(Listed(f)) = Total(Listed(s))
              /\ ~ pending => f.record = s.record /\ DOMAIN f.pkg = DOMAIN s.pkg
        BY <2>1, <3>1, <3>2, <3>4, QuietTells, Zenon
      <4>2. quiet(TRUE) =>
              /\ ChecksumsPending(f) <=> pending
              /\ ~ pending => Listed(f) = Listed(s)
        BY <2>1, <3>1, <3>2, <3>4, QuietTells, Zenon
      <4>3. ASSUME f = [s EXCEPT !.attached = f.attached]
            PROVE  quiet(FALSE) /\ (quiet(TRUE) <=> "wrong" \notin f.attached)
        <5>1. ChainProblems(f, FALSE) = AttachedProblems(f, FALSE)
          BY <2>1, <3>1, <3>2, <4>3, AsClosed, Zenon
        <5>2. ChainProblems(f, TRUE) = AttachedProblems(f, TRUE)
          BY <2>1, <3>1, <3>2, <4>3, AsClosed, Zenon
        <5> QED
          BY <5>1, <5>2, AttachedSays, Zenon
      <4>4. f = [s EXCEPT !.attached = f.attached] =>
              quiet(FALSE) /\ quiet(TRUE) = ("wrong" \notin f.attached)
        BY <4>3, Zenon
      <4>5. /\ quiet(FALSE) => /\ Cardinality(Listed(f)) = Cardinality(Listed(s))
                               /\ Total(Listed(f)) = Total(Listed(s))
            /\ quiet(FALSE) /\ ~ ChecksumsPending(f) =>
                 f.record = s.record /\ DOMAIN f.pkg = DOMAIN s.pkg
            /\ quiet(TRUE) /\ ~ ChecksumsPending(f) => Listed(f) = Listed(s)
        <5> HIDE DEF quiet
        <5> QED
          BY <4>1, <4>2
      <4> HIDE DEF quiet
      <4> QED
        BY <4>4, <4>5, Zenon
    <3> QED
      BY <3>2, <3>3, <3>4 DEF ChainInv
  <2> QED
    BY <2>2, <2>3, Zenon DEF ChainTells
<1> QED
  BY <1>1, ChainInvariance, PTL

(***************************************************************************)
(* The audio of a package.                                                 *)
(***************************************************************************)

\* So something has the least rank.
LEMMA LeastRank ==
  ASSUME NEW S, S # {}, NEW rank, \A i \in S : rank[i] \in Nat
  PROVE  \E i \in S : \A j \in S : rank[i] <= rank[j]
<1>1. {rank[i] : i \in S} \subseteq Nat /\ {rank[i] : i \in S} # {}
  OBVIOUS
<1>2. PICK x \in {rank[i] : i \in S} : \A y \in {rank[i] : i \in S} : x <= y
  BY <1>1, LeastNumber, Zenon
<1> QED
  BY <1>2

\* The tracks of a source, numbered from 1.
IsSource(s) == \E k \in Nat : s = [i \in 1 .. k |-> s[i]] /\ Len(s) = k

\* A source's tracks are numbered from one.
LEMMA SourceIndices ==
  ASSUME NEW s, IsSource(s)
  PROVE  /\ Len(s) \in Nat /\ DOMAIN s = 1 .. Len(s) /\ Indices(s) = DOMAIN s
         /\ s = <<>> <=> DOMAIN s = {}
BY DEF IsSource, Indices

\* What a flag costs.
LEMMA FlagCost == \A b \in BOOLEAN : Flag(b) \in {0, 1} /\ (b <=> Flag(b) = 1)
BY DEF Flag

\* The rank of a track for the default.
LEMMA AudioRanks ==
  ASSUME NEW s, IsSource(s), NEW visible, NEW i \in DOMAIN s
  PROVE  LET n == Len(s) + 1
             r == AudioRank(s, visible, i)
         IN /\ r \in Nat
            /\ i \notin visible => r > 4 * n
            /\ i \in visible => r < 4 * n
            /\ i \in visible /\ IsMainAudio(s[i]) => r < 2 * n
            /\ ~ IsMainAudio(s[i]) => r > 2 * n
<1> DEFINE a == Flag(i \notin visible)
           b == Flag(~ IsMainAudio(s[i]))
           c == Flag("default" \notin s[i].marks)
           n == Len(s) + 1
<1>1. /\ a \in {0, 1} /\ (i \notin visible <=> a = 1)
      /\ b \in {0, 1} /\ (~ IsMainAudio(s[i]) <=> b = 1)
      /\ c \in {0, 1}
  BY DEF Flag
<1>2. n \in Nat /\ i \in 1 .. n - 1
  BY SourceIndices
<1>3. AudioRank(s, visible, i) = (4 * a + 2 * b + c) * n + i
  BY Zenon DEF AudioRank
<1> HIDE DEF a, b, c, n
<1>4. 4 * a + 2 * b + c \in 0 .. 7
  BY <1>1
<1>5. ASSUME NEW k \in 0 .. 7
      PROVE  /\ k * n + i \in Nat
             /\ k >= 4 => k * n + i > 4 * n
             /\ k < 4 => k * n + i < 4 * n
             /\ k < 2 => k * n + i < 2 * n
             /\ k >= 2 => k * n + i > 2 * n
  BY <1>2, SMT
<1>6. /\ 4 * a + 2 * b + c >= 4 <=> a = 1
      /\ a = 0 /\ b = 0 => 4 * a + 2 * b + c < 2
      /\ b = 1 => 4 * a + 2 * b + c >= 2
  BY <1>1
<1> DEFINE k == 4 * a + 2 * b + c
<1>7. k \in 0 .. 7 /\ (k >= 4 <=> a = 1) /\ (a = 0 /\ b = 0 => k < 2) /\ (b = 1 => k >= 2)
  BY <1>4, <1>6
<1>8. AudioRank(s, visible, i) = k * n + i
  BY <1>3
<1> HIDE DEF k
<1>9. /\ k * n + i \in Nat
      /\ a = 1 => k * n + i > 4 * n
      /\ a = 0 => k * n + i < 4 * n
      /\ a = 0 /\ b = 0 => k * n + i < 2 * n
      /\ b = 1 => k * n + i > 2 * n
  BY <1>5, <1>7, <1>2
<1> QED
  BY <1>1, <1>8, <1>9 DEF n

\* What the default is picked from, where one language is preferred or none.
PickedFrom(s, preferred) ==
  LET wanted == {i \in DOMAIN s : preferred # <<>> /\ s[i].lang = preferred[1]}
  IN IF wanted # {} THEN wanted ELSE DOMAIN s

\* The candidates for the default, with the preferences spelled out.
LEMMA Candidates ==
  ASSUME NEW s, NEW preferred \in Preferences
  PROVE  DefaultCandidates(s, preferred) = PickedFrom(s, preferred)
<1> DEFINE has(k) == {i \in Indices(s) : s[i].lang = preferred[k]}
           first == {k \in DOMAIN preferred : has(k) # {} /\ \A l \in 1 .. k - 1 : has(l) = {}}
<1>1. DefaultCandidates(s, preferred) =
        IF first = {} THEN Indices(s) ELSE UNION {has(k) : k \in first}
  BY DEF DefaultCandidates
<1>2. CASE preferred = <<>>
  BY <1>1, <1>2 DEF PickedFrom, Indices
<1>3. CASE \E l : preferred = <<l>>
  <2>1. DOMAIN preferred = {1} /\ preferred # <<>>
    BY <1>3
  <2>2. first = IF has(1) # {} THEN {1} ELSE {}
    BY <2>1
  <2>3. PickedFrom(s, preferred) = IF has(1) # {} THEN has(1) ELSE Indices(s)
    BY <2>1 DEF PickedFrom, Indices
  <2> HIDE DEF has, first
  <2>4. CASE has(1) # {}
    BY <1>1, <2>2, <2>3, <2>4
  <2>5. CASE has(1) = {}
    BY <1>1, <2>2, <2>3, <2>5
  <2> QED
    BY <2>4, <2>5
<1> QED
  BY <1>2, <1>3 DEF Preferences

\* The default has the least rank of those it is picked from.
LEMMA DefaultPicked ==
  ASSUME NEW s, IsSource(s), s # <<>>, NEW visible, NEW preferred \in Preferences
  PROVE  LET d == PickDefaultAudio(s, visible, preferred)
             from == PickedFrom(s, preferred)
         IN /\ d \in from /\ from \subseteq DOMAIN s
            /\ \A j \in from : AudioRank(s, visible, d) <= AudioRank(s, visible, j)
<1> DEFINE from == PickedFrom(s, preferred)
           rank == [i \in from |-> AudioRank(s, visible, i)]
           IsLeast(i) == \A j \in from : AudioRank(s, visible, i) <= AudioRank(s, visible, j)
<1>1. from # {} /\ from \subseteq DOMAIN s /\ Indices(s) # {}
  <2>1. DOMAIN s # {} /\ Indices(s) = DOMAIN s
    BY SourceIndices
  <2> QED
    BY <2>1 DEF PickedFrom
<1>2. PickDefaultAudio(s, visible, preferred) = CHOOSE i \in from : IsLeast(i)
  BY <1>1, Candidates DEF PickDefaultAudio
<1> HIDE DEF from
<1>3. \A i \in from : rank[i] \in Nat
  BY <1>1, AudioRanks
<1>4. \E i \in from : \A j \in from : rank[i] <= rank[j]
  <2> HIDE DEF rank
  <2> QED
    BY <1>1, <1>3, LeastRank
<1>5. \E i \in from : IsLeast(i)
  BY <1>4
<1> HIDE DEF IsLeast
<1>6. /\ PickDefaultAudio(s, visible, preferred) \in from
      /\ IsLeast(PickDefaultAudio(s, visible, preferred))
  BY <1>2, <1>5
<1> QED
  BY <1>1, <1>6 DEF from, IsLeast

\* The rank of a companion for the default of its group, where one language is
\* preferred or none.
LEMMA SurroundRanks ==
  ASSUME NEW s, IsSource(s), NEW visible, NEW d \in DOMAIN s, NEW preferred \in Preferences,
         NEW i \in DOMAIN s
  PROVE  \E m \in Nat \ {0} :
           LET r == SurroundRank(s, visible, d, preferred, i)
           IN /\ m = (Len(preferred) + 1) * (Len(s) + 1) /\ r \in Nat
              /\ i \notin visible => r > 4 * m
              /\ i \in visible => r < 4 * m
              /\ i \in visible /\ s[i].lang = s[d].lang => r < 3 * m
              /\ s[i].lang # s[d].lang => r > 3 * m
<1> DEFINE a == Flag(i \notin visible)
           b == Flag(i # d)
           c == Flag(d = 0 \/ s[i].lang # s[d].lang)
           n == Len(preferred) + 1
           l == Len(s) + 1
           at == {k \in DOMAIN preferred : preferred[k] = s[i].lang}
           place == IF at = {} THEN n - 1 ELSE (CHOOSE k \in at : \A j \in at : k <= j) - 1
<1>1. /\ a \in {0, 1} /\ (i \notin visible <=> a = 1)
      /\ b \in {0, 1} /\ (i # d <=> b = 1)
  BY DEF Flag
<1>2. l \in Nat /\ i \in 1 .. l - 1 /\ d # 0
  BY SourceIndices
<1>3. c \in {0, 1} /\ (s[i].lang # s[d].lang <=> c = 1)
  BY <1>2 DEF Flag
<1>4. n \in {1, 2} /\ place \in 0 .. n - 1
  <2>1. CASE preferred = <<>>
    BY <2>1
  <2>2. CASE \E k : preferred = <<k>>
    <3>1. DOMAIN preferred = {1} /\ n = 2
      BY <2>2
    <3>2. at = {} \/ at = {1}
      BY <3>1
    <3> QED
      BY <3>1, <3>2
  <2> QED
    BY <2>1, <2>2 DEF Preferences
<1>5. SurroundRank(s, visible, d, preferred, i) = ((4 * a + 2 * b + c) * n + place) * l + i
  BY Zenon DEF SurroundRank
<1> HIDE DEF a, b, c, n, l, place, at
<1>6. s[i].lang # s[d].lang => i # d
  OBVIOUS
<1> DEFINE k == 4 * a + 2 * b + c
<1>7. /\ k \in 0 .. 7 /\ (a = 1 => k >= 4) /\ (a = 0 => k < 4) /\ (a = 0 /\ c = 0 => k < 3)
      /\ c = 1 => k >= 3
  BY <1>1, <1>3, <1>6
<1> HIDE DEF k
<1>8. ASSUME NEW m \in Nat, m = n * l
      PROVE  LET r == (k * n + place) * l + i
             IN /\ r \in Nat
                /\ k >= 4 => r > 4 * m
                /\ k < 4 => r < 4 * m
                /\ k < 3 => r < 3 * m
                /\ k >= 3 => r > 3 * m
  <2>1. CASE n = 1
    BY <1>2, <1>4, <1>7, <1>8, <2>1, SMT
  <2>2. CASE n = 2
    BY <1>2, <1>4, <1>7, <1>8, <2>2, SMT
  <2> QED
    BY <1>4, <2>1, <2>2
<1>9. n * l \in Nat \ {0}
  BY <1>2, <1>4
<1>10. SurroundRank(s, visible, d, preferred, i) = (k * n + place) * l + i
  BY <1>5 DEF k
<1> DEFINE m == n * l
<1>11. m \in Nat \ {0}
  BY <1>9
<1>12. LET r == (k * n + place) * l + i
       IN /\ r \in Nat
          /\ i \notin visible => r > 4 * m
          /\ i \in visible => r < 4 * m
          /\ i \in visible /\ s[i].lang = s[d].lang => r < 3 * m
          /\ s[i].lang # s[d].lang => r > 3 * m
  <2> HIDE DEF m
  <2>1. m = n * l
    BY DEF m
  <2> QED
    BY <1>1, <1>3, <1>7, <1>8, <1>11, <2>1
<1> QED
  BY <1>10, <1>11, <1>12 DEF n, l

\* The 5.1 group's default is a companion, one that a client offers where there
\* is one, in the language of the default where there is one of it.
LEMMA SurroundPicked ==
  ASSUME NEW s, IsSource(s), NEW visible, NEW d \in DOMAIN s, NEW preferred \in Preferences,
         NEW plan, plan \subseteq DOMAIN s, plan # {}
  PROVE  LET p == PickDefaultSurround(plan, s, visible, d, preferred)
             offered == plan \cap visible
         IN /\ p \in plan
            /\ offered # {} => p \in offered
            /\ (\E i \in offered : s[i].lang = s[d].lang) => s[p].lang = s[d].lang
<1> DEFINE rank == [i \in plan |-> SurroundRank(s, visible, d, preferred, i)]
           IsLeast(i) == \A j \in plan : SurroundRank(s, visible, d, preferred, i)
                                         <= SurroundRank(s, visible, d, preferred, j)
           p == PickDefaultSurround(plan, s, visible, d, preferred)
           m == (Len(preferred) + 1) * (Len(s) + 1)
<1>1. \A i \in plan :
        /\ m \in Nat \ {0} /\ rank[i] \in Nat
        /\ i \notin visible => rank[i] > 4 * m
        /\ i \in visible => rank[i] < 4 * m
        /\ i \in visible /\ s[i].lang = s[d].lang => rank[i] < 3 * m
        /\ s[i].lang # s[d].lang => rank[i] > 3 * m
  <2> SUFFICES ASSUME NEW i \in plan
               PROVE  LET r == SurroundRank(s, visible, d, preferred, i)
                      IN /\ m \in Nat \ {0} /\ r \in Nat
                         /\ i \notin visible => r > 4 * m
                         /\ i \in visible => r < 4 * m
                         /\ i \in visible /\ s[i].lang = s[d].lang => r < 3 * m
                         /\ s[i].lang # s[d].lang => r > 3 * m
    OBVIOUS
  <2> QED
    BY SurroundRanks
<1>2. \E i \in plan : \A j \in plan : rank[i] <= rank[j]
  <2>1. \A i \in plan : rank[i] \in Nat
    BY <1>1
  <2> HIDE DEF rank
  <2> QED
    BY <2>1, LeastRank
<1>3. \E i \in plan : IsLeast(i)
  BY <1>2
<1>4. p = CHOOSE i \in plan : IsLeast(i)
  BY DEF PickDefaultSurround
<1>5. p \in plan /\ IsLeast(p)
  <2> HIDE DEF IsLeast, p
  <2> QED
    BY <1>3, <1>4
<1>6. \A j \in plan : rank[p] <= rank[j]
  BY <1>5
<1> HIDE DEF rank, IsLeast, p, m
<1>7. \A i \in plan \cap visible : p \in visible /\ (s[i].lang = s[d].lang => s[p].lang = s[d].lang)
  BY <1>1, <1>5, <1>6
<1> QED
  BY <1>5, <1>7 DEF p

\* What has a companion: the tracks of the film that a client offers, or its
\* first; the first of a language.
LEMMA Companions ==
  ASSUME NEW s, IsSource(s), NEW visible, NEW d
  PROVE  LET plan == SurroundPlan(s, visible, d, "eac3")
             film == {i \in DOMAIN s : IsFilmSurround(s[i])}
             offered == visible \cup {d}
         IN /\ plan \subseteq film
            /\ film # {} => plan # {}
            /\ \A i \in film \cap offered : \E j \in plan : s[j].lang = s[i].lang
            /\ \A i, j \in plan : s[i].lang = s[j].lang => i = j
            /\ \A i \in plan \ offered : plan = {i}
<1> DEFINE film == {i \in DOMAIN s : IsFilmSurround(s[i])}
           offered == visible \cup {d}
           S == SurroundOffered(s, visible, d)
           plan == SurroundPlan(s, visible, d, "eac3")
<1>1. film \subseteq Nat
  BY SourceIndices
<1>2. S = IF film \cap offered # {} THEN film \cap offered
          ELSE {i \in film : \A j \in film : i <= j}
  BY DEF SurroundOffered, Indices
<1>3. plan = {i \in S : \A j \in S : j < i => s[j].lang # s[i].lang}
  BY DEF SurroundPlan
<1> HIDE DEF film, S, plan, offered
<1>4. S \subseteq film /\ plan \subseteq S
  BY <1>2, <1>3
<1>5. \A i \in S : \E j \in plan : s[j].lang = s[i].lang
  <2> SUFFICES ASSUME NEW i \in S  PROVE \E j \in plan : s[j].lang = s[i].lang
    OBVIOUS
  <2> DEFINE T == {j \in S : s[j].lang = s[i].lang}
  <2>1. T \subseteq Nat /\ T # {}
    BY <1>1, <1>4
  <2>2. PICK j \in T : \A k \in T : j <= k
    BY <2>1, LeastNumber, Zenon
  <2>3. \A k \in S : k < j => s[k].lang # s[j].lang
    BY <1>1, <1>4, <2>2
  <2> QED
    BY <1>3, <2>2, <2>3
<1>6. film # {} => S # {}
  <2>1. ASSUME film # {}  PROVE \E i \in film : \A j \in film : i <= j
    BY <1>1, <2>1, LeastNumber, Zenon
  <2> QED
    BY <1>2, <2>1
<1>7. \A i, j \in plan : s[i].lang = s[j].lang => i = j
  BY <1>1, <1>3, <1>4
<1>8. \A i \in plan \ offered : plan = {i}
  <2> SUFFICES ASSUME NEW i \in plan \ offered  PROVE plan = {i}
    OBVIOUS
  <2>1. S = {k \in film : \A j \in film : k <= j}
    BY <1>2, <1>4
  <2>2. \A j \in S : j = i
    BY <1>1, <1>4, <2>1
  <2> QED
    BY <1>4, <2>2
<1>9. film \cap offered \subseteq S
  BY <1>2
<1> QED
  BY <1>4, <1>5, <1>6, <1>7, <1>8, <1>9 DEF film, plan, offered

\* The audio jobs are those that were planned.
AudioInv ==
  job.kind = "audio" =>
    \E streams \in UpTo(MaxTracks, AudioTracks), whitelist \in {{}} \cup Whitelists,
       single \in BOOLEAN, preferred \in Preferences :
      job = AudioPlan(streams, whitelist, single, preferred)

\* THEOREM: a viewer hears the film, and the 5.1 group keeps it, for a source of
\* any number of tracks and any languages (_pick_default_audio,
\* _surround_plan, _pick_default_surround).
THEOREM AudioAlwaysOffered == Spec => []AudioIsOffered
<1>1. Init => AudioInv
  BY DEF Init, AudioInv
<1>2. AudioInv /\ [Next]_job => AudioInv'
  <2> SUFFICES ASSUME AudioInv, [Next]_job  PROVE AudioInv'
    OBVIOUS
  <2>1. CASE UNCHANGED job
    BY <2>1 DEF AudioInv
  <2>2. CASE PlanAudio
    BY <2>2 DEF AudioInv, PlanAudio
  <2>3. CASE job'.kind # "audio"
    BY <2>3 DEF AudioInv
  <2> QED
    BY <2>1, <2>2, <2>3, PlanKinds, OtherKinds
<1>3. AudioInv => AudioIsOffered
  <2> SUFFICES ASSUME AudioInv, job.kind = "audio"  PROVE AudioIsOffered
    BY DEF AudioIsOffered, DefaultIsOffered, SurroundKept
  <2>1. PICK s \in UpTo(MaxTracks, AudioTracks), whitelist \in {{}} \cup Whitelists,
             single \in BOOLEAN, preferred \in Preferences :
               job = AudioPlan(s, whitelist, single, preferred)
    BY DEF AudioInv
  <2> DEFINE visible == VisibleIndices(s, whitelist, single)
             d == PickDefaultAudio(s, visible, preferred)
             plan == SurroundPlan(s, visible, d, "eac3")
             p == PickDefaultSurround(plan, s, visible, d, preferred)
             from == PickedFrom(s, preferred)
  <2>2. /\ job.streams = s /\ job.preferred = preferred /\ job.visible = visible
        /\ job.default = d /\ job.plan = plan /\ job.surround = p
    <3> HIDE DEF visible, d, plan, p
    <3> QED
      BY <2>1, Zenon DEF AudioPlan, visible, d, plan, p
  <2>3. IsSource(s)
    <3>1. PICK k \in 0 .. MaxTracks : s \in [1 .. k -> AudioTracks]
      BY DEF UpTo
    <3>2. AudioTracks \subseteq AudioSources
      BY DEF AudioTracks, AudioSources
    <3>3. s \in [1 .. k -> AudioSources] /\ Len(s) = k /\ k \in Nat
      BY <3>1, <3>2, PlansAssumption
    <3> QED
      BY <3>3 DEF IsSource
  <2> HIDE DEF visible, d, plan, p, from
  <2> DEFINE film == {i \in DOMAIN s : IsFilmSurround(s[i])}
             offered == plan \cap visible
  <2>4. /\ plan \subseteq film
        /\ film # {} => plan # {}
        /\ \A i \in film \cap (visible \cup {d}) : \E j \in plan : s[j].lang = s[i].lang
        /\ \A i, j \in plan : s[i].lang = s[j].lang => i = j
        /\ \A i \in plan \ (visible \cup {d}) : plan = {i}
    BY <2>3, Companions DEF plan
  <2>5. SurroundKept
    BY <2>2, <2>4 DEF SurroundKept
  <2>6. ASSUME s # <<>>  PROVE DefaultIsOffered
    <3>1. /\ d \in from /\ from \subseteq DOMAIN s
          /\ \A j \in from : AudioRank(s, visible, d) <= AudioRank(s, visible, j)
      BY <2>3, <2>6, DefaultPicked DEF d, from
    <3> DEFINE n == Len(s) + 1
               rank == [i \in DOMAIN s |-> AudioRank(s, visible, i)]
    <3>2. \A i \in DOMAIN s :
            /\ rank[i] \in Nat
            /\ i \notin visible => rank[i] > 4 * n
            /\ i \in visible => rank[i] < 4 * n
            /\ i \in visible /\ IsMainAudio(s[i]) => rank[i] < 2 * n
            /\ ~ IsMainAudio(s[i]) => rank[i] > 2 * n
      BY <2>3, AudioRanks
    <3>3. n \in Nat
      BY <2>3, SourceIndices
    <3>4. \A j \in from : rank[d] <= rank[j]
      BY <3>1
    <3> HIDE DEF n, rank
    <3>5. from \cap visible # {} => d \in visible
      BY <3>1, <3>2, <3>3, <3>4
    <3>6. \A i \in from \cap visible : IsMainAudio(s[i]) => d \in visible /\ IsMainAudio(s[d])
      BY <3>1, <3>2, <3>3, <3>4
    <3>7. plan # {} =>
            /\ p \in plan
            /\ offered # {} => p \in offered
            /\ (\E i \in offered : s[i].lang = s[d].lang) => s[p].lang = s[d].lang
      <4>1. plan \subseteq DOMAIN s /\ d \in DOMAIN s
        BY <2>4, <3>1
      <4> QED
        BY <2>3, <4>1, SurroundPicked DEF p
    <3>8. LET heard == {i \in from \cap visible : IsMainAudio(s[i])}
          IN /\ d \in from
             /\ from \cap visible # {} => d \in visible
             /\ heard # {} => d \in heard
      BY <3>1, <3>5, <3>6
    <3>9. /\ plan # {} => p \in plan
          /\ offered # {} => p \in offered
          /\ (\E i \in offered : s[i].lang = s[d].lang) => s[p].lang = s[d].lang
      BY <3>7
    <3> HIDE DEF film, offered
    <3> QED
      BY <2>2, <3>8, <3>9, Zenon DEF DefaultIsOffered, from, PickedFrom, offered
  <2>7. s = <<>> => DefaultIsOffered
    BY <2>2 DEF DefaultIsOffered
  <2> QED
    BY <2>5, <2>6, <2>7 DEF AudioIsOffered
<1> QED
  BY <1>1, <1>2, <1>3, PTL DEF Spec

(***************************************************************************)
(* What deleting an original costs.                                        *)
(***************************************************************************)

\* What the gate names.
LEMMA GateNames ==
  ASSUME NEW had, NEW kept
  PROVE  LET gate == DeletionGate(had, kept)
         IN /\ had.hdr10Metadata /\ ~ kept.hdr10Metadata => <<"hdr10Metadata", "">> \in gate
            /\ had.styledSubtitles /\ ~ kept.styledSubtitles => <<"styledSubtitles", "">> \in gate
            /\ had.fonts /\ ~ kept.fonts => <<"fonts", "">> \in gate
            /\ kept.maxAudioChannels < had.maxAudioChannels => <<"maxAudioChannels", "">> \in gate
            /\ kept.subtitleTracks < had.subtitleTracks => <<"subtitleTracks", "">> \in gate
            /\ \A l \in had.sdhSubtitleLanguages \ kept.sdhSubtitleLanguages :
                 <<"sdhSubtitleLanguages", l>> \in gate
            /\ \A l \in had.forcedSubtitleLanguages \ kept.forcedSubtitleLanguages :
                 <<"forcedSubtitleLanguages", l>> \in gate
<1> DEFINE gate == DeletionGate(had, kept)
<1>1. \A k \in LossFlags : had[k] /\ ~ kept[k] => <<k, "">> \in gate
  BY DEF DeletionGate
<1>2. \A k \in LossCounts : kept[k] < had[k] => <<k, "">> \in gate
  BY DEF DeletionGate
<1>3. \A k \in LossLanguages : \A l \in had[k] \ kept[k] : <<k, l>> \in gate
  <2> SUFFICES ASSUME NEW k \in LossLanguages, NEW l \in had[k] \ kept[k]
               PROVE  <<k, l>> \in gate
    OBVIOUS
  <2> DEFINE of == {<<k, m>> : m \in had[k] \ kept[k]}
             all == {{<<j, m>> : m \in had[j] \ kept[j]} : j \in LossLanguages}
  <2>1. <<k, l>> \in of
    OBVIOUS
  <2>2. of \in all
    OBVIOUS
  <2>3. UNION all \subseteq gate
    BY DEF DeletionGate
  <2> HIDE DEF of, all, gate
  <2> QED
    BY <2>1, <2>2, <2>3
<1> HIDE DEF gate
<1>4. /\ had["hdr10Metadata"] /\ ~ kept["hdr10Metadata"] => <<"hdr10Metadata", "">> \in gate
      /\ had["styledSubtitles"] /\ ~ kept["styledSubtitles"] => <<"styledSubtitles", "">> \in gate
      /\ had["fonts"] /\ ~ kept["fonts"] => <<"fonts", "">> \in gate
  BY <1>1 DEF LossFlags
<1>5. /\ kept["maxAudioChannels"] < had["maxAudioChannels"] => <<"maxAudioChannels", "">> \in gate
      /\ kept["subtitleTracks"] < had["subtitleTracks"] => <<"subtitleTracks", "">> \in gate
  BY <1>2 DEF LossCounts
<1>6. /\ \A l \in had["sdhSubtitleLanguages"] \ kept["sdhSubtitleLanguages"] :
           <<"sdhSubtitleLanguages", l>> \in gate
      /\ \A l \in had["forcedSubtitleLanguages"] \ kept["forcedSubtitleLanguages"] :
           <<"forcedSubtitleLanguages", l>> \in gate
  BY <1>3 DEF LossLanguages
<1> QED
  BY <1>4, <1>5, <1>6, Zenon DEF gate

\* And all it names.
LEMMA GateOnly ==
  ASSUME NEW had, NEW kept,
         \A f \in LossFlags : f = "losslessAudio" \/ (had[f] => kept[f]),
         \A c \in LossCounts : ~ kept[c] < had[c],
         \A k \in LossLanguages : had[k] \subseteq kept[k]
  PROVE  DeletionGate(had, kept) \subseteq {<<"losslessAudio", "">>}
BY DEF DeletionGate

\* A subtitle of a source, as the runs take one.
LEMMA SubtitleFields ==
  ASSUME NEW x \in SubtitleTracks
  PROVE  \E sort \in SubtitleSorts :
           /\ x = Subtitle(x.lang, sort)
           /\ x.lang \in Languages /\ x.form = "text"
           /\ x.marks = sort.marks /\ x.says = sort.says
<1>1. PICK l \in Languages, sort \in SubtitleSorts : x = Subtitle(l, sort)
  BY DEF SubtitleTracks
<1> QED
  BY <1>1 DEF Subtitle

\* What it is for.
LEMMA SubtitlePurposes ==
  ASSUME NEW sort \in SubtitleSorts, NEW x, x.marks = sort.marks, x.says = sort.says
  PROVE  /\ SubtitlePurpose(x) \in {"dialogue", "forced", "sdh", "commentary"}
         /\ x.marks \cap EntryMarks = x.marks
<1>1. "lyrics" \notin sort.marks /\ "lyrics" \notin sort.says
  BY DEF SubtitleSorts
<1>2. "signs" \notin sort.says /\ "commentary" \notin sort.says
  BY DEF SubtitleSorts
<1>3. sort.marks \cap EntryMarks = sort.marks
  BY DEF SubtitleSorts, EntryMarks
<1> QED
  BY <1>1, <1>2, <1>3 DEF SubtitlePurpose

\* The entry of a subtitle reads as the source's track does.
LEMMA EntryReads ==
  ASSUME NEW subs, NEW i, subs[i] \in SubtitleTracks
  PROVE  /\ SubtitlePurpose(AsRecorded(subs, i)) = SourcePurpose(subs, i)
         /\ SourcePurpose(subs, i) \in {"dialogue", "forced", "sdh", "commentary"}
<1> DEFINE x == subs[i]
           e == AsEntry(x)
           p == SourcePurpose(subs, i)
           mark == CASE p = "forced" -> {"forced"}
                     [] p = "sdh" /\ SubtitlePurpose(e) # "sdh" -> {"hearing_impaired"}
                     [] OTHER -> {}
           r == AsRecorded(subs, i)
<1>1. PICK sort \in SubtitleSorts :
        /\ x = Subtitle(x.lang, sort) /\ x.marks = sort.marks /\ x.says = sort.says
  BY SubtitleFields
<1>2. /\ x.marks \cap EntryMarks = x.marks
      /\ SubtitlePurpose(x) \in {"dialogue", "forced", "sdh", "commentary"}
  BY <1>1, SubtitlePurposes
<1>3. e = x
  <2>1. e = [x EXCEPT !.marks = x.marks]
    BY <1>2, Zenon DEF AsEntry
  <2> QED
    BY <1>1, <2>1 DEF Subtitle
<1>4. r = [e EXCEPT !.marks = @ \cup mark]
  BY Zenon DEF AsRecorded
<1>5. p = IF ForcedBySize(subs, i) THEN "forced" ELSE SubtitlePurpose(x)
  BY DEF SourcePurpose
<1> HIDE DEF x, e, p, r
<1>6. mark = IF p = "forced" THEN {"forced"} ELSE {}
  <2>1. p = "sdh" => SubtitlePurpose(e) = "sdh"
    BY <1>3, <1>5
  <2> QED
    BY <2>1
<1> HIDE DEF mark
<1>7. r.marks = x.marks \cup mark /\ r.says = x.says
  BY <1>1, <1>3, <1>4
<1>8. p # "forced" => r = x
  BY <1>1, <1>3, <1>4, <1>6 DEF Subtitle
<1>9. p = "forced" => SubtitlePurpose(r) = "forced"
  BY <1>6, <1>7 DEF SubtitlePurpose
<1>10. p # "forced" => p = SubtitlePurpose(x)
  BY <1>5
<1> QED
  BY <1>2, <1>5, <1>8, <1>9, <1>10 DEF p, r

\* What the package's record names as lost, the gate names.
LossNames ==
  [l \in {"audio-downmix", "dynamic-range", "subtitle-dropped", "subtitle-styling",
          "attachments-dropped"} |->
     CASE l = "audio-downmix" -> "maxAudioChannels" [] l = "dynamic-range" -> "hdr10Metadata"
       [] l = "subtitle-dropped" -> "subtitleTracks" [] l = "subtitle-styling" -> "styledSubtitles"
       [] OTHER -> "fonts"]

\* Where the gate names each loss.
LEMMA LossNamed ==
  /\ DOMAIN LossNames = {"audio-downmix", "dynamic-range", "subtitle-dropped", "subtitle-styling",
                         "attachments-dropped"}
  /\ LossNames["audio-downmix"] = "maxAudioChannels"
  /\ LossNames["dynamic-range"] = "hdr10Metadata"
  /\ LossNames["subtitle-dropped"] = "subtitleTracks"
  /\ LossNames["subtitle-styling"] = "styledSubtitles"
  /\ LossNames["attachments-dropped"] = "fonts"
BY DEF LossNames

\* A loss is one of what the two sides hold.
LEMMA RecordedLosses ==
  ASSUME NEW src, NEW pkg
  PROVE  LET had == SourceEssence(src)
             kept == PackageEssence(src, pkg)
             lost == LossesAgainst(src, pkg)
         IN /\ "audio-downmix" \in lost => had.maxAudioChannels > kept.maxAudioChannels
            /\ "dynamic-range" \in lost => had.hdr10Metadata /\ ~ kept.hdr10Metadata
            /\ "subtitle-dropped" \in lost => had.subtitleTracks > kept.subtitleTracks
            /\ "subtitle-styling" \in lost => had.styledSubtitles /\ ~ kept.styledSubtitles
            /\ "attachments-dropped" \in lost => had.fonts /\ ~ kept.fonts
BY Zenon DEF LossesAgainst

\* The gate of an original names every loss.
LEMMA LossesInGate ==
  ASSUME NEW src, NEW pkg,
         SourceEssence(src).maxAudioChannels \in Int, PackageEssence(src, pkg).maxAudioChannels \in Int,
         SourceEssence(src).subtitleTracks \in Int, PackageEssence(src, pkg).subtitleTracks \in Int
  PROVE  LET gate == DeletionGate(SourceEssence(src), PackageEssence(src, pkg))
         IN \A l \in LossesAgainst(src, pkg) \cap DOMAIN LossNames : <<LossNames[l], "">> \in gate
<1> DEFINE had == SourceEssence(src)
           kept == PackageEssence(src, pkg)
           lost == LossesAgainst(src, pkg)
           gate == DeletionGate(had, kept)
<1>1. /\ had.hdr10Metadata /\ ~ kept.hdr10Metadata => <<"hdr10Metadata", "">> \in gate
      /\ had.styledSubtitles /\ ~ kept.styledSubtitles => <<"styledSubtitles", "">> \in gate
      /\ had.fonts /\ ~ kept.fonts => <<"fonts", "">> \in gate
      /\ kept.maxAudioChannels < had.maxAudioChannels => <<"maxAudioChannels", "">> \in gate
      /\ kept.subtitleTracks < had.subtitleTracks => <<"subtitleTracks", "">> \in gate
  BY GateNames, Zenon
<1>2. /\ "audio-downmix" \in lost => had.maxAudioChannels > kept.maxAudioChannels
      /\ "dynamic-range" \in lost => had.hdr10Metadata /\ ~ kept.hdr10Metadata
      /\ "subtitle-dropped" \in lost => had.subtitleTracks > kept.subtitleTracks
      /\ "subtitle-styling" \in lost => had.styledSubtitles /\ ~ kept.styledSubtitles
      /\ "attachments-dropped" \in lost => had.fonts /\ ~ kept.fonts
  BY RecordedLosses, Zenon
<1> HIDE DEF had, kept, lost, gate
<1>3. \A x, y \in Int : x > y <=> y < x
  OBVIOUS
<1>4. /\ had.maxAudioChannels > kept.maxAudioChannels => kept.maxAudioChannels < had.maxAudioChannels
      /\ had.subtitleTracks > kept.subtitleTracks => kept.subtitleTracks < had.subtitleTracks
  BY <1>3, Zenon DEF had, kept
<1>5. \A l \in lost \cap DOMAIN LossNames : <<LossNames[l], "">> \in gate
  BY <1>1, <1>2, <1>4, LossNamed
<1> QED
  BY <1>5 DEF gate, lost, had, kept

\* A package that keeps all a source has but what re-encoding loses.
KeepsAll(src, pkg) ==
  LET surround == {i \in DOMAIN src.audio : src.audio[i].ch > 2}
  IN /\ pkg.subs = DOMAIN src.subs /\ pkg.styled = {i \in DOMAIN src.subs : src.subs[i].styled}
     /\ pkg.fonts = src.fonts
     /\ src.hdr10 => pkg.top # "encoded"
     /\ surround # {} => \E i \in surround : IsMainAudio(src.audio[i])

\* A forced or SDH language whose subtitles were left out is named.
LanguagesNamed(src, pkg) ==
  LET gate == DeletionGate(SourceEssence(src), PackageEssence(src, pkg))
      purpose(i) == SourcePurpose(src.subs, i)
  IN pkg.outside = <<>> => \A i \in DOMAIN src.subs \ pkg.subs :
       LET p == purpose(i)  l == src.subs[i].lang
       IN p \in {"forced", "sdh"} /\ (\A j \in pkg.subs : src.subs[j].lang = l => purpose(j) # p)
            => <<IF p = "sdh" THEN "sdhSubtitleLanguages" ELSE "forcedSubtitleLanguages", l>> \in gate

\* A style or a font in no file of the package is named.
LEMMA StylesNamed ==
  ASSUME NEW src, NEW pkg
  PROVE  LET gate == DeletionGate(SourceEssence(src), PackageEssence(src, pkg))
         IN /\ {i \in DOMAIN src.subs : src.subs[i].styled} \ pkg.styled # {} => <<"styledSubtitles", "">> \in gate
            /\ src.fonts \ pkg.fonts # {} => <<"fonts", "">> \in gate
<1> DEFINE had == SourceEssence(src)
           kept == PackageEssence(src, pkg)
           gate == DeletionGate(had, kept)
           styled == {i \in DOMAIN src.subs : src.subs[i].styled}
<1>1. /\ had.styledSubtitles <=> \E i \in DOMAIN src.subs : src.subs[i].styled
      /\ had.fonts <=> src.fonts # {}
  BY Zenon DEF SourceEssence
<1>2. /\ kept.styledSubtitles <=> CarriesAll(pkg.styled, styled)
      /\ kept.fonts <=> CarriesAll(pkg.fonts, src.fonts)
  BY Zenon DEF PackageEssence
<1>3. /\ had.styledSubtitles /\ ~ kept.styledSubtitles => <<"styledSubtitles", "">> \in gate
      /\ had.fonts /\ ~ kept.fonts => <<"fonts", "">> \in gate
  BY GateNames, Zenon
<1> HIDE DEF had, kept, gate
<1>4. styled \ pkg.styled # {} => had.styledSubtitles /\ ~ kept.styledSubtitles
  BY <1>1, <1>2, Zenon DEF CarriesAll
<1>5. src.fonts \ pkg.fonts # {} => had.fonts /\ ~ kept.fonts
  BY <1>1, <1>2, Zenon DEF CarriesAll
<1> QED
  BY <1>3, <1>4, <1>5, Zenon DEF gate, had, kept

\* The parts of GateIsExact together.
LEMMA GateParts ==
  ASSUME LET gate == DeletionGate(SourceEssence(job.src), PackageEssence(job.src, job.pkg))
         IN KeepsAll(job.src, job.pkg) => gate \subseteq {<<"losslessAudio", "">>},
         LanguagesNamed(job.src, job.pkg),
         SourceEssence(job.src).maxAudioChannels \in Int,
         PackageEssence(job.src, job.pkg).maxAudioChannels \in Int,
         SourceEssence(job.src).subtitleTracks \in Int,
         PackageEssence(job.src, job.pkg).subtitleTracks \in Int
  PROVE  GateIsExact
<1> DEFINE gate == DeletionGate(SourceEssence(job.src), PackageEssence(job.src, job.pkg))
<1>1. \A l \in LossesAgainst(job.src, job.pkg) \cap DOMAIN LossNames : <<LossNames[l], "">> \in gate
  BY LossesInGate
<1>2. /\ {i \in DOMAIN job.src.subs : job.src.subs[i].styled} \ job.pkg.styled # {} =>
           <<"styledSubtitles", "">> \in gate
      /\ job.src.fonts \ job.pkg.fonts # {} => <<"fonts", "">> \in gate
  BY StylesNamed, Zenon
<1> QED
  BY <1>1, <1>2, Zenon DEF GateIsExact, KeepsAll, LanguagesNamed, LossNames

\* The two kinds of record: of a source's subtitles; of its audio, its fonts and
\* its HDR10 metadata.
SubtitleJob(subs, outside, taken, styled) ==
  [kind |-> "record",
   src |-> [audio |-> <<>>, subs |-> subs, fonts |-> {}, hdr10 |-> FALSE],
   pkg |-> [audio |-> {}, companions |-> {}, subs |-> taken, styled |-> styled, fonts |-> {},
            outside |-> outside, top |-> "encoded", codec |-> "eac3"]]

MediaJob(streams, fonts, taken, top, hdr10) ==
  [kind |-> "record",
   src |-> [audio |-> streams, subs |-> <<>>, fonts |-> fonts, hdr10 |-> hdr10],
   pkg |-> [audio |-> DOMAIN streams, companions |-> AudioPlan(streams, {}, FALSE, <<>>).plan,
            subs |-> {}, styled |-> {}, fonts |-> taken, outside |-> <<>>,
            top |-> top, codec |-> "eac3"]]

\* A record of subtitles.
LEMMA SubtitlesGate ==
  ASSUME NEW n \in Nat, NEW subs \in [1 .. n -> SubtitleTracks], Len(subs) = n,
         NEW outside \in {<<>>} \cup {<<Beside(l)>> : l \in Shown},
         NEW taken \in SUBSET DOMAIN subs, NEW styled,
         job = SubtitleJob(subs, outside, taken, styled)
  PROVE  GateIsExact
<1> DEFINE src == job.src
           pkg == job.pkg
           had == SourceEssence(src)
           kept == PackageEssence(src, pkg)
           gate == DeletionGate(had, kept)
           purpose(i) == SourcePurpose(subs, i)
           has(p) == {i \in 1 .. n : purpose(i) \in p}
           in(p) == {i \in taken : purpose(i) \in p}
           beside(p) == {k \in DOMAIN outside : SubtitlePurpose(outside[k]) \in p}
<1>1. /\ src.audio = <<>> /\ src.subs = subs /\ src.fonts = {} /\ src.hdr10 = FALSE
      /\ pkg.audio = {} /\ pkg.companions = {} /\ pkg.subs = taken /\ pkg.styled = styled
      /\ pkg.fonts = {} /\ pkg.outside = outside /\ pkg.top = "encoded"
  BY DEF SubtitleJob
<1>2. DOMAIN subs = 1 .. n /\ taken \subseteq 1 .. n /\ DOMAIN src.audio = {}
  BY <1>1
<1>3. \A i \in 1 .. n : /\ SubtitlePurpose(AsRecorded(subs, i)) = purpose(i)
                        /\ purpose(i) \in {"dialogue", "forced", "sdh", "commentary"}
                        /\ subs[i].lang \in Languages /\ subs[i].form = "text"
  <2> SUFFICES ASSUME NEW i \in 1 .. n
               PROVE  /\ SubtitlePurpose(AsRecorded(subs, i)) = purpose(i)
                      /\ purpose(i) \in {"dialogue", "forced", "sdh", "commentary"}
                      /\ subs[i].lang \in Languages /\ subs[i].form = "text"
    OBVIOUS
  <2>1. subs[i] \in SubtitleTracks
    OBVIOUS
  <2>2. subs[i].lang \in Languages /\ subs[i].form = "text"
    BY <2>1, SubtitleFields
  <2> QED
    BY <2>1, <2>2, EntryReads
<1>4. \A l \in Languages : l # "und"
  BY PlansAssumption DEF NoLanguage
<1>5. /\ had.maxAudioChannels = Max({0} \cup {src.audio[i].ch : i \in DOMAIN src.audio})
      /\ had.surround <=> \E i \in DOMAIN src.audio : src.audio[i].ch > 2
      /\ had.hdr10Metadata = src.hdr10
      /\ had.imageSubtitles <=> \E i \in DOMAIN src.subs : src.subs[i].form = "image"
      /\ had.styledSubtitles <=> \E i \in DOMAIN src.subs : src.subs[i].styled
      /\ had.fonts <=> src.fonts # {}
      /\ had.subtitleTracks = Len(src.subs)
      /\ had.commentaryTracks =
           Cardinality({i \in DOMAIN src.audio : AudioPurpose(src.audio[i]) = "commentary"})
      /\ had.audioDescriptionTracks =
           Cardinality({i \in DOMAIN src.audio : AudioPurpose(src.audio[i]) = "description"})
      /\ had.commentarySubtitles =
           Cardinality({i \in DOMAIN src.subs : SourcePurpose(src.subs, i) \in {"commentary"}})
      /\ had.audioLanguages = Named({src.audio[i].lang : i \in DOMAIN src.audio})
      /\ had.subtitleLanguages = Named({src.subs[i].lang : i \in DOMAIN src.subs})
      /\ had.sdhSubtitleLanguages = Named({src.subs[i].lang :
           i \in {j \in DOMAIN src.subs : SourcePurpose(src.subs, j) \in {"sdh"}}})
      /\ had.forcedSubtitleLanguages = Named({src.subs[i].lang :
           i \in {j \in DOMAIN src.subs : SourcePurpose(src.subs, j) \in {"forced", "signs-songs"}}})
  BY Zenon DEF SourceEssence
<1> DEFINE read == PackagePurposes(src, pkg)
<1>6. /\ kept.maxAudioChannels =
           (IF pkg.companions # {} THEN 6 ELSE IF pkg.audio # {} THEN 2 ELSE 0)
      /\ kept.styledSubtitles <=>
           CarriesAll(pkg.styled, {i \in DOMAIN src.subs : src.subs[i].styled})
      /\ kept.subtitleTracks = Cardinality(pkg.subs) + Len(pkg.outside)
  BY Zenon DEF PackageEssence
<1>7. /\ kept.commentaryTracks =
           Cardinality({i \in pkg.audio : AudioPurpose(AsEntry(src.audio[i])) = "commentary"})
      /\ kept.audioDescriptionTracks =
           Cardinality({i \in pkg.audio : AudioPurpose(AsEntry(src.audio[i])) = "description"})
  BY Zenon DEF PackageEssence
<1>8. kept.commentarySubtitles = Cardinality({i \in pkg.subs : read[i] \in {"commentary"}})
        + Cardinality({k \in DOMAIN pkg.outside : SubtitlePurpose(pkg.outside[k]) \in {"commentary"}})
  BY Zenon DEF PackageEssence
<1>9. kept.subtitleLanguages = {src.subs[i].lang : i \in pkg.subs}
        \cup {pkg.outside[k].lang : k \in DOMAIN pkg.outside}
  BY Zenon DEF PackageEssence
<1>10. kept.sdhSubtitleLanguages = {src.subs[i].lang : i \in {j \in pkg.subs : read[j] \in {"sdh"}}}
         \cup {pkg.outside[k].lang :
                 k \in {j \in DOMAIN pkg.outside : SubtitlePurpose(pkg.outside[j]) \in {"sdh"}}}
  BY Zenon DEF PackageEssence
<1>11. kept.forcedSubtitleLanguages =
         {src.subs[i].lang : i \in {j \in pkg.subs : read[j] \in {"forced", "signs-songs"}}}
         \cup {pkg.outside[k].lang :
                 k \in {j \in DOMAIN pkg.outside : SubtitlePurpose(pkg.outside[j]) \in {"forced", "signs-songs"}}}
  BY Zenon DEF PackageEssence
<1>12. PackagePurposes(src, pkg) = [i \in taken |-> SubtitlePurpose(AsRecorded(subs, i))]
  BY <1>1, Zenon DEF PackagePurposes
<1> HIDE DEF src, pkg, had, kept, gate
<1>13. /\ {src.audio[i].ch : i \in DOMAIN src.audio} = {}
       /\ Named({src.audio[i].lang : i \in DOMAIN src.audio}) = {}
       /\ {i \in DOMAIN src.audio : AudioPurpose(src.audio[i]) = "commentary"} = {}
       /\ {i \in DOMAIN src.audio : AudioPurpose(src.audio[i]) = "description"} = {}
       /\ ~ \E i \in DOMAIN src.audio : src.audio[i].ch > 2
       /\ {0} \cup {} = {0}
  BY <1>2 DEF Named
<1>14. /\ ~ had.surround /\ ~ had.hdr10Metadata /\ ~ had.fonts
       /\ had.styledSubtitles <=> \E i \in 1 .. n : subs[i].styled
  BY <1>1, <1>2, <1>5, <1>13
<1>15. ~ had.imageSubtitles
  BY <1>1, <1>2, <1>3, <1>5
<1>16. /\ had.maxAudioChannels = Max({0}) /\ had.subtitleTracks = n
       /\ had.commentaryTracks = Cardinality({}) /\ had.audioDescriptionTracks = Cardinality({})
       /\ had.commentarySubtitles = Cardinality(has({"commentary"}))
  BY <1>1, <1>2, <1>5, <1>13
<1>17. had.audioLanguages = {} /\ had.subtitleLanguages = {subs[i].lang : i \in 1 .. n} \ {"und"}
  BY <1>1, <1>2, <1>5, <1>13 DEF Named
<1>18. had.sdhSubtitleLanguages = {subs[i].lang : i \in has({"sdh"})} \ {"und"}
  BY <1>1, <1>2, <1>5, <1>13 DEF Named
<1>19. had.forcedSubtitleLanguages = {subs[i].lang : i \in has({"forced", "signs-songs"})} \ {"und"}
  BY <1>1, <1>2, <1>5, <1>13 DEF Named
<1>20. /\ kept.maxAudioChannels = 0
       /\ kept.styledSubtitles <=> CarriesAll(styled, {i \in 1 .. n : subs[i].styled})
       /\ kept.subtitleTracks = Cardinality(taken) + Len(outside)
       /\ kept.commentaryTracks = Cardinality({}) /\ kept.audioDescriptionTracks = Cardinality({})
  <2>1. /\ {i \in pkg.audio : AudioPurpose(AsEntry(src.audio[i])) = "commentary"} = {}
        /\ {i \in pkg.audio : AudioPurpose(AsEntry(src.audio[i])) = "description"} = {}
    BY <1>1
  <2> QED
    BY <1>1, <1>2, <1>6, <1>7, <2>1
<1>21. /\ \A i \in taken : read[i] = purpose(i)
       /\ \A P : {i \in pkg.subs : read[i] \in P} = in(P)
  BY <1>1, <1>2, <1>3, <1>12
<1> HIDE DEF read
<1>22. /\ kept.commentarySubtitles =
            Cardinality(in({"commentary"})) + Cardinality(beside({"commentary"}))
       /\ kept.subtitleLanguages =
            {subs[i].lang : i \in taken} \cup {outside[k].lang : k \in DOMAIN outside}
  BY <1>1, <1>8, <1>9, <1>21
<1>23. kept.sdhSubtitleLanguages =
         {subs[i].lang : i \in in({"sdh"})} \cup {outside[k].lang : k \in beside({"sdh"})}
  BY <1>1, <1>10, <1>21
<1>24. kept.forcedSubtitleLanguages = {subs[i].lang : i \in in({"forced", "signs-songs"})}
         \cup {outside[k].lang : k \in beside({"forced", "signs-songs"})}
  BY <1>1, <1>11, <1>21
<1>25. IsFiniteSet(1 .. n) /\ Cardinality(1 .. n) = n /\ IsFiniteSet(taken) /\ IsFiniteSet(has({"commentary"}))
  <2>1. IsFiniteSet(1 .. n) /\ Cardinality(1 .. n) = n
    BY FS_Interval
  <2>2. taken \in SUBSET (1 .. n) /\ has({"commentary"}) \in SUBSET (1 .. n)
    BY <1>2
  <2> QED
    BY <2>1, <2>2, FS_Subset
<1>26. Len(outside) \in Nat /\ IsFiniteSet(beside({"commentary"})) /\ IsFiniteSet({})
  <2>1. Len(outside) \in {0, 1} /\ DOMAIN outside \in {{}, {1}}
    OBVIOUS
  <2>2. beside({"commentary"}) \in SUBSET DOMAIN outside
    OBVIOUS
  <2>3. IsFiniteSet({}) /\ IsFiniteSet({1})
    BY FS_EmptySet, FS_Singleton
  <2> QED
    BY <2>1, <2>2, <2>3, FS_Subset
<1>27. /\ Cardinality(taken) \in Nat /\ Cardinality(has({"commentary"})) \in Nat
       /\ Cardinality(beside({"commentary"})) \in Nat /\ Cardinality({}) = 0
  BY <1>25, <1>26, FS_CardinalityType, FS_EmptySet
<1> HIDE DEF purpose, has, in, beside
<1>28. Max({0}) = 0
  BY DEF Max
<1>29. ASSUME KeepsAll(src, pkg)  PROVE gate \subseteq {<<"losslessAudio", "">>}
  <2>1. taken = 1 .. n /\ styled = {i \in 1 .. n : subs[i].styled}
    BY <1>1, <1>2, <1>29 DEF KeepsAll
  <2>2. \A P : in(P) = has(P)
    BY <2>1 DEF in, has
  <2>3. \A f \in LossFlags : f = "losslessAudio" \/ (had[f] => kept[f])
    <3>1. had.styledSubtitles => kept.styledSubtitles
      BY <1>14, <1>20, <2>1 DEF CarriesAll
    <3> QED
      BY <1>14, <1>15, <3>1 DEF LossFlags
  <2>4. \A c \in LossCounts : ~ kept[c] < had[c]
    <3>1. ~ kept.maxAudioChannels < had.maxAudioChannels
      BY <1>16, <1>20, <1>28
    <3>2. ~ kept.subtitleTracks < had.subtitleTracks
      BY <1>16, <1>20, <1>25, <1>26, <2>1
    <3>3. /\ ~ kept.commentaryTracks < had.commentaryTracks
          /\ ~ kept.audioDescriptionTracks < had.audioDescriptionTracks
      BY <1>16, <1>20, <1>27
    <3>4. ~ kept.commentarySubtitles < had.commentarySubtitles
      BY <1>16, <1>22, <1>27, <2>2
    <3> QED
      BY <3>1, <3>2, <3>3, <3>4 DEF LossCounts
  <2>5. \A k \in LossLanguages : had[k] \subseteq kept[k]
    <3>1. had.audioLanguages \subseteq kept.audioLanguages
      BY <1>17
    <3>2. had.subtitleLanguages \subseteq kept.subtitleLanguages
      BY <1>17, <1>22, <2>1
    <3>3. had.sdhSubtitleLanguages \subseteq kept.sdhSubtitleLanguages
      BY <1>18, <1>23, <2>2
    <3>4. had.forcedSubtitleLanguages \subseteq kept.forcedSubtitleLanguages
      BY <1>19, <1>24, <2>2
    <3> QED
      BY <3>1, <3>2, <3>3, <3>4 DEF LossLanguages
  <2> QED
    BY <2>3, <2>4, <2>5, GateOnly DEF gate
<1>30. LanguagesNamed(src, pkg)
  <2> SUFFICES ASSUME outside = <<>>, NEW i \in (1 .. n) \ taken, purpose(i) \in {"forced", "sdh"},
                      \A j \in taken : subs[j].lang = subs[i].lang => purpose(j) # purpose(i)
               PROVE  <<IF purpose(i) = "sdh" THEN "sdhSubtitleLanguages" ELSE "forcedSubtitleLanguages",
                        subs[i].lang>> \in gate
    BY <1>1, <1>2, Zenon DEF LanguagesNamed, gate, had, kept, purpose
  <2>1. DOMAIN outside = {}
    OBVIOUS
  <2>2. subs[i].lang # "und"
    BY <1>3, <1>4
  <2>3. /\ \A l \in had.sdhSubtitleLanguages \ kept.sdhSubtitleLanguages :
             <<"sdhSubtitleLanguages", l>> \in gate
        /\ \A l \in had.forcedSubtitleLanguages \ kept.forcedSubtitleLanguages :
             <<"forcedSubtitleLanguages", l>> \in gate
    BY GateNames, Zenon DEF gate
  <2>4. CASE purpose(i) = "sdh"
    <3>1. subs[i].lang \in had.sdhSubtitleLanguages
      BY <1>18, <2>2, <2>4 DEF has
    <3>2. subs[i].lang \notin kept.sdhSubtitleLanguages
      BY <1>23, <2>1, <2>4 DEF in, beside
    <3> QED
      BY <2>3, <2>4, <3>1, <3>2
  <2>5. \A j \in taken : purpose(j) # "signs-songs"
    BY <1>2, <1>3 DEF purpose
  <2>6. CASE purpose(i) = "forced"
    <3>1. subs[i].lang \in had.forcedSubtitleLanguages
      BY <1>19, <2>2, <2>6 DEF has
    <3>2. subs[i].lang \notin kept.forcedSubtitleLanguages
      BY <1>2, <2>1, <2>6, <2>5, <1>24 DEF in, beside
    <3> QED
      BY <2>3, <2>6, <3>1, <3>2
  <2> QED
    BY <2>4, <2>6
<1> QED
  <2>1. /\ had.maxAudioChannels \in Int /\ kept.maxAudioChannels \in Int
        /\ had.subtitleTracks \in Int /\ kept.subtitleTracks \in Int
    BY <1>16, <1>20, <1>26, <1>27, <1>28
  <2> QED
    BY <1>29, <1>30, <2>1, GateParts DEF src, pkg, had, kept, gate

\* A track of a source, and its entry.
LEMMA AudioFields ==
  ASSUME NEW x \in AudioSources
  PROVE  x.ch \in {2, 6} /\ AudioPurpose(AsEntry(x)) = AudioPurpose(x)
<1>1. PICK l \in Tags, c \in {"aac", "truehd"}, ch \in {2, 6}, sort \in Sorts : x = Track(l, c, ch, sort)
  BY DEF AudioSources
<1>2. AsEntry(x) = [x EXCEPT !.marks = x.marks \cap EntryMarks]
  BY Zenon DEF AsEntry
<1>3. AsEntry(x).marks = x.marks \cap EntryMarks /\ AsEntry(x).says = x.says /\ x.ch \in {2, 6}
  BY <1>1, <1>2 DEF Track
<1>4. /\ "comment" \in AsEntry(x).marks <=> "comment" \in x.marks
      /\ "visual_impaired" \in AsEntry(x).marks <=> "visual_impaired" \in x.marks
  BY <1>3 DEF EntryMarks
<1> QED
  BY <1>3, <1>4, Zenon DEF AudioPurpose

\* The most of a few numbers.
LEMMA MostChannels ==
  ASSUME NEW C \in SUBSET {2, 6}
  PROVE  /\ Max({0} \cup C) \in {0, 2, 6}
         /\ 6 \notin C => Max({0} \cup C) \in {0, 2}
         /\ C = {} => Max({0} \cup C) = 0
<1> DEFINE M == {0} \cup C
           IsMost(x) == \A y \in M : x >= y
<1>1. M \subseteq {0, 2, 6} /\ 0 \in M
  OBVIOUS
<1>2. \E x \in M : IsMost(x)
  <2>1. 6 \in M => IsMost(6)
    BY <1>1
  <2>2. 6 \notin M /\ 2 \in M => IsMost(2)
    BY <1>1
  <2>3. 6 \notin M /\ 2 \notin M => IsMost(0)
    BY <1>1
  <2> QED
    BY <1>1, <2>1, <2>2, <2>3
<1>3. Max(M) = CHOOSE x \in M : IsMost(x)
  BY DEF Max
<1> HIDE DEF IsMost
<1>4. Max(M) \in M
  BY <1>2, <1>3
<1> QED
  BY <1>1, <1>4

\* A record of audio, fonts and HDR10 metadata.
LEMMA MediaGate ==
  ASSUME NEW streams, NEW n \in Nat, streams \in [1 .. n -> AudioSources], Len(streams) = n,
         NEW fonts, NEW taken \in SUBSET fonts,
         NEW top \in {"copied", "boxes", "encoded"}, NEW hdr10 \in BOOLEAN,
         job = MediaJob(streams, fonts, taken, top, hdr10)
  PROVE  GateIsExact
<1> DEFINE src == job.src
           pkg == job.pkg
           had == SourceEssence(src)
           kept == PackageEssence(src, pkg)
           gate == DeletionGate(had, kept)
           plan == AudioPlan(streams, {}, FALSE, <<>>).plan
           of(p) == {i \in 1 .. n : AudioPurpose(streams[i]) = p}
           loud == {streams[i].ch : i \in 1 .. n}
<1>1. /\ src.audio = streams /\ src.subs = <<>> /\ src.fonts = fonts /\ src.hdr10 = hdr10
      /\ pkg.audio = DOMAIN streams /\ pkg.companions = plan /\ pkg.subs = {} /\ pkg.styled = {}
      /\ pkg.fonts = taken /\ pkg.outside = <<>> /\ pkg.top = top
  <2> HIDE DEF plan
  <2> QED
    BY DEF plan, MediaJob
<1>2. DOMAIN streams = 1 .. n
  OBVIOUS
<1>3. \A i \in 1 .. n : /\ streams[i].ch \in {2, 6}
                        /\ AudioPurpose(AsEntry(streams[i])) = AudioPurpose(streams[i])
  <2> SUFFICES ASSUME NEW i \in 1 .. n
               PROVE  /\ streams[i].ch \in {2, 6}
                      /\ AudioPurpose(AsEntry(streams[i])) = AudioPurpose(streams[i])
    OBVIOUS
  <2>1. streams[i] \in AudioSources
    OBVIOUS
  <2> QED
    BY <2>1, AudioFields
<1>4. LET film == {i \in DOMAIN streams : IsFilmSurround(streams[i])}
      IN plan \subseteq film /\ (film # {} => plan # {})
  <2> DEFINE visible == VisibleIndices(streams, {}, FALSE)
             d == PickDefaultAudio(streams, visible, <<>>)
  <2>1. plan = SurroundPlan(streams, visible, d, "eac3")
    BY Zenon DEF AudioPlan
  <2>2. IsSource(streams)
    BY DEF IsSource
  <2> HIDE DEF visible, d, plan
  <2> QED
    BY <2>1, <2>2, Companions
<1>5. /\ had.maxAudioChannels = Max({0} \cup {src.audio[i].ch : i \in DOMAIN src.audio})
      /\ had.surround <=> \E i \in DOMAIN src.audio : src.audio[i].ch > 2
      /\ had.hdr10Metadata = src.hdr10
      /\ had.imageSubtitles <=> \E i \in DOMAIN src.subs : src.subs[i].form = "image"
      /\ had.styledSubtitles <=> \E i \in DOMAIN src.subs : src.subs[i].styled
      /\ had.fonts <=> src.fonts # {}
      /\ had.subtitleTracks = Len(src.subs)
      /\ had.commentaryTracks =
           Cardinality({i \in DOMAIN src.audio : AudioPurpose(src.audio[i]) = "commentary"})
      /\ had.audioDescriptionTracks =
           Cardinality({i \in DOMAIN src.audio : AudioPurpose(src.audio[i]) = "description"})
      /\ had.commentarySubtitles =
           Cardinality({i \in DOMAIN src.subs : SourcePurpose(src.subs, i) \in {"commentary"}})
      /\ had.audioLanguages = Named({src.audio[i].lang : i \in DOMAIN src.audio})
      /\ had.subtitleLanguages = Named({src.subs[i].lang : i \in DOMAIN src.subs})
      /\ had.sdhSubtitleLanguages = Named({src.subs[i].lang :
           i \in {j \in DOMAIN src.subs : SourcePurpose(src.subs, j) \in {"sdh"}}})
      /\ had.forcedSubtitleLanguages = Named({src.subs[i].lang :
           i \in {j \in DOMAIN src.subs : SourcePurpose(src.subs, j) \in {"forced", "signs-songs"}}})
  BY Zenon DEF SourceEssence
<1> DEFINE read == PackagePurposes(src, pkg)
<1>6. /\ kept.maxAudioChannels =
           (IF pkg.companions # {} THEN 6 ELSE IF pkg.audio # {} THEN 2 ELSE 0)
      /\ kept.surround <=> pkg.companions # {}
      /\ kept.hdr10Metadata <=> src.hdr10 /\ pkg.top \in {"copied", "boxes"}
      /\ kept.fonts <=> CarriesAll(pkg.fonts, src.fonts)
  BY Zenon DEF PackageEssence
<1>7. kept.subtitleTracks = Cardinality(pkg.subs) + Len(pkg.outside)
  BY Zenon DEF PackageEssence
<1>8. /\ kept.commentaryTracks =
           Cardinality({i \in pkg.audio : AudioPurpose(AsEntry(src.audio[i])) = "commentary"})
      /\ kept.audioDescriptionTracks =
           Cardinality({i \in pkg.audio : AudioPurpose(AsEntry(src.audio[i])) = "description"})
  BY Zenon DEF PackageEssence
<1>9. kept.commentarySubtitles = Cardinality({i \in pkg.subs : read[i] \in {"commentary"}})
        + Cardinality({k \in DOMAIN pkg.outside : SubtitlePurpose(pkg.outside[k]) \in {"commentary"}})
  BY Zenon DEF PackageEssence
<1>10. kept.audioLanguages = {src.audio[i].lang : i \in pkg.audio \cup pkg.companions}
  BY Zenon DEF PackageEssence
<1> HIDE DEF src, pkg, had, kept, gate, plan, read
<1>11. /\ {i \in DOMAIN src.subs : SourcePurpose(src.subs, i) \in {"commentary"}} = {}
       /\ Named({src.subs[i].lang : i \in DOMAIN src.subs}) = {}
       /\ Named({src.subs[i].lang :
               i \in {j \in DOMAIN src.subs : SourcePurpose(src.subs, j) \in {"sdh"}}}) = {}
       /\ Named({src.subs[i].lang :
            i \in {j \in DOMAIN src.subs : SourcePurpose(src.subs, j) \in {"forced", "signs-songs"}}}) = {}
       /\ {i \in pkg.subs : read[i] \in {"commentary"}} = {}
       /\ {k \in DOMAIN pkg.outside : SubtitlePurpose(pkg.outside[k]) \in {"commentary"}} = {}
       /\ Len(src.subs) = 0 /\ Len(pkg.outside) = 0 /\ DOMAIN src.subs = {}
  BY <1>1 DEF Named
<1>12. /\ had.subtitleLanguages =
            {} /\ had.sdhSubtitleLanguages = {} /\ had.forcedSubtitleLanguages = {}
       /\ ~ had.imageSubtitles /\ ~ had.styledSubtitles
  BY <1>5, <1>11
<1>13. /\ had.maxAudioChannels = Max({0} \cup loud)
       /\ had.surround <=> \E i \in 1 .. n : streams[i].ch > 2
       /\ had.hdr10Metadata = hdr10
       /\ had.fonts <=> fonts # {}
  BY <1>1, <1>2, <1>5
<1>14. /\ had.commentaryTracks = Cardinality(of("commentary"))
       /\ had.audioDescriptionTracks = Cardinality(of("description"))
       /\ had.audioLanguages = {streams[i].lang : i \in 1 .. n} \ {"und"}
  BY <1>1, <1>2, <1>5 DEF Named
<1>15. had.subtitleTracks = 0 /\ had.commentarySubtitles = 0
  BY <1>5, <1>11, FS_EmptySet
<1>16. /\ kept.maxAudioChannels = (IF plan # {} THEN 6 ELSE IF n # 0 THEN 2 ELSE 0)
       /\ kept.surround <=> plan # {}
       /\ kept.hdr10Metadata <=> hdr10 /\ top \in {"copied", "boxes"}
       /\ kept.fonts <=> CarriesAll(taken, fonts)
  BY <1>1, <1>2, <1>6
<1>17. kept.subtitleTracks = 0 /\ kept.commentarySubtitles = 0
  BY <1>1, <1>7, <1>9, <1>11, FS_EmptySet
<1>18. /\ kept.commentaryTracks = Cardinality(of("commentary"))
       /\ kept.audioDescriptionTracks = Cardinality(of("description"))
  <2>1. /\ {i \in pkg.audio : AudioPurpose(AsEntry(src.audio[i])) = "commentary"} = of("commentary")
        /\ {i \in pkg.audio : AudioPurpose(AsEntry(src.audio[i])) = "description"} = of("description")
    BY <1>1, <1>2, <1>3
  <2> QED
    BY <1>8, <2>1
<1>19. had.audioLanguages \subseteq kept.audioLanguages
  BY <1>1, <1>2, <1>10, <1>14
<1>20. /\ Cardinality(of("commentary")) \in Nat /\ Cardinality(of("description")) \in Nat
  <2>1. of("commentary") \in SUBSET (1 .. n) /\ of("description") \in SUBSET (1 .. n)
    OBVIOUS
  <2>2. IsFiniteSet(1 .. n)
    BY FS_Interval
  <2> QED
    BY <2>1, <2>2, FS_Subset, FS_CardinalityType
<1> HIDE DEF of
<1>21. loud \in SUBSET {2, 6} /\ (n = 0 => loud = {}) /\ (6 \in loud => \E i \in 1 .. n : streams[i].ch > 2)
  <2>1. loud \in SUBSET {2, 6}
    BY <1>3
  <2>2. n = 0 => loud = {}
    OBVIOUS
  <2>3. 6 \in loud => \E i \in 1 .. n : streams[i].ch > 2
    OBVIOUS
  <2> QED
    BY <2>1, <2>2, <2>3
<1> HIDE DEF loud
<1>22. /\ Max({0} \cup loud) \in {0, 2, 6}
       /\ 6 \notin loud => Max({0} \cup loud) \in {0, 2}
       /\ loud = {} => Max({0} \cup loud) = 0
  BY <1>21, MostChannels
<1>23. ASSUME KeepsAll(src, pkg)  PROVE gate \subseteq {<<"losslessAudio", "">>}
  <2>1. /\ taken = fonts /\ (hdr10 => top # "encoded")
        /\ (\E i \in 1 .. n : streams[i].ch > 2) => plan # {}
    <3>1. taken = fonts /\ (hdr10 => top # "encoded")
      BY <1>1, <1>23 DEF KeepsAll
    <3>2. ASSUME NEW i \in 1 .. n, streams[i].ch > 2
          PROVE  \E j \in 1 .. n : streams[j].ch > 2 /\ IsMainAudio(streams[j])
      BY <1>1, <1>2, <1>23, <3>2 DEF KeepsAll
    <3> QED
      BY <1>2, <1>4, <3>1, <3>2 DEF IsFilmSurround
  <2>2. \A f \in LossFlags : f = "losslessAudio" \/ (had[f] => kept[f])
    <3>1. had.fonts => kept.fonts
      BY <1>13, <1>16, <2>1 DEF CarriesAll
    <3>2. (had.surround => kept.surround) /\ (had.hdr10Metadata => kept.hdr10Metadata)
      BY <1>13, <1>16, <2>1
    <3> QED
      BY <1>12, <3>1, <3>2 DEF LossFlags
  <2>3. \A c \in LossCounts : ~ kept[c] < had[c]
    <3>1. ~ kept.maxAudioChannels < had.maxAudioChannels
      BY <1>13, <1>16, <1>21, <1>22, <2>1
    <3>2. /\ ~ kept.subtitleTracks < had.subtitleTracks
          /\ ~ kept.commentarySubtitles < had.commentarySubtitles
      BY <1>15, <1>17
    <3>3. /\ ~ kept.commentaryTracks < had.commentaryTracks
          /\ ~ kept.audioDescriptionTracks < had.audioDescriptionTracks
      BY <1>14, <1>18, <1>20
    <3> QED
      BY <3>1, <3>2, <3>3 DEF LossCounts
  <2>4. \A k \in LossLanguages : had[k] \subseteq kept[k]
    BY <1>12, <1>19 DEF LossLanguages
  <2> QED
    BY <2>2, <2>3, <2>4, GateOnly DEF gate
<1>24. LanguagesNamed(src, pkg)
  BY <1>11, Zenon DEF LanguagesNamed
<1> QED
  <2>1. /\ had.maxAudioChannels \in Int /\ kept.maxAudioChannels \in Int
        /\ had.subtitleTracks \in Int /\ kept.subtitleTracks \in Int
    BY <1>13, <1>15, <1>16, <1>17, <1>22
  <2> QED
    BY <1>23, <1>24, <2>1, GateParts DEF src, pkg, had, kept, gate

\* The records are those that were taken.
SubtitleRecord ==
  \E subs \in UpTo(MaxTracks, SubtitleTracks), outside \in {<<>>} \cup {<<Beside(l)>> : l \in Shown} :
  \E taken \in SUBSET DOMAIN subs : \E styled \in SUBSET {i \in taken : subs[i].styled} :
    job = SubtitleJob(subs, outside, taken, styled)

MediaRecord ==
  \E streams \in UpTo(2, AudioSources), fonts \in SUBSET {1, 2}, top \in {"copied", "boxes", "encoded"},
     hdr10 \in BOOLEAN :
  \E taken \in SUBSET fonts : job = MediaJob(streams, fonts, taken, top, hdr10)

RecordInv == job.kind = "record" => SubtitleRecord \/ MediaRecord

\* THEOREM: an original is let go exactly when nothing of it is lost, for any
\* number of subtitles and any languages (source_essence, package_essence,
\* for_record, losses_against, deletion_gate).
THEOREM GateAlwaysExact == Spec => []GateIsExact
<1>1. Init => RecordInv
  BY DEF Init, RecordInv
<1>2. RecordInv /\ [Next]_job => RecordInv'
  <2> SUFFICES ASSUME RecordInv, [Next]_job  PROVE RecordInv'
    OBVIOUS
  <2>1. CASE UNCHANGED job
    BY <2>1 DEF RecordInv, SubtitleRecord, MediaRecord
  <2>2. CASE RecordSubtitles
    <3>1. SubtitleRecord'
      BY <2>2, Zenon DEF RecordSubtitles, SubtitleRecord, SubtitleJob
    <3> QED
      BY <3>1 DEF RecordInv
  <2>3. CASE RecordMedia
    <3>1. MediaRecord'
      BY <2>3, Zenon DEF RecordMedia, MediaRecord, MediaJob
    <3> QED
      BY <3>1 DEF RecordInv
  <2>4. CASE job'.kind # "record"
    BY <2>4 DEF RecordInv
  <2> QED
    BY <2>1, <2>2, <2>3, <2>4, PlanKinds, OtherKinds
<1>3. RecordInv => GateIsExact
  <2> SUFFICES ASSUME RecordInv, job.kind = "record"  PROVE GateIsExact
    BY DEF GateIsExact
  <2>1. CASE SubtitleRecord
    <3>1. PICK subs \in UpTo(MaxTracks, SubtitleTracks), outside \in {<<>>} \cup {<<Beside(l)>> : l \in Shown} :
            \E taken \in SUBSET DOMAIN subs : \E styled \in SUBSET {i \in taken : subs[i].styled} :
              job = SubtitleJob(subs, outside, taken, styled)
      BY <2>1, Zenon DEF SubtitleRecord
    <3>2. PICK taken \in SUBSET DOMAIN subs : \E styled : job = SubtitleJob(subs, outside, taken, styled)
      BY <3>1, Zenon
    <3>3. PICK styled : job = SubtitleJob(subs, outside, taken, styled)
      BY <3>2, Zenon
    <3>4. PICK n \in 0 .. MaxTracks : subs \in [1 .. n -> SubtitleTracks] /\ Len(subs) = n
      BY DEF UpTo
    <3>5. n \in Nat
      BY <3>4, PlansAssumption
    <3> QED
      BY <3>3, <3>4, <3>5, SubtitlesGate
  <2>2. CASE MediaRecord
    <3>1. PICK streams \in UpTo(2, AudioSources), fonts \in SUBSET {1, 2},
               top \in {"copied", "boxes", "encoded"}, hdr10 \in BOOLEAN :
            \E taken \in SUBSET fonts : job = MediaJob(streams, fonts, taken, top, hdr10)
      BY <2>2, Zenon DEF MediaRecord
    <3>2. PICK taken \in SUBSET fonts : job = MediaJob(streams, fonts, taken, top, hdr10)
      BY <3>1, Zenon
    <3>3. PICK n \in 0 .. 2 : streams \in [1 .. n -> AudioSources] /\ Len(streams) = n
      BY DEF UpTo
    <3>4. n \in Nat
      BY <3>3
    <3> QED
      BY <3>2, <3>3, <3>4, MediaGate, Zenon
  <2> QED
    BY <2>1, <2>2 DEF RecordInv
<1> QED
  BY <1>1, <1>2, <1>3, PTL DEF Spec

(***************************************************************************)
(* Calls and reports.                                                      *)
(***************************************************************************)

Tokens == [number : Nat, until : Int, ends : Int]
CallAnswers == {"ok", "401", "error", "lost"}
Clients ==
  [token : Tokens, held : BOOLEAN, given : Nat, sent : Seq([token : Tokens, at : Nat, answer : CallAnswers]),
   again : BOOLEAN, out : CallAnswers \cup {"none", "raised"}]

\* A client's token is one it was given, and is used as long as it outlasts a
\* request.
TokenInv(c) ==
  c.token = NoToken \/ (/\ c.token.number \in 1 .. c.given
                        /\ c.token.ends = c.token.until + TOKEN_REFRESH_LEAD_SECONDS)

\* A client that made sure of a token has it, or asked for it now.
LEMMA TokenEnsured ==
  ASSUME NEW k \in Clients, TokenInv(k), NEW now \in Nat, NEW ttl \in Nat \cup {-1}
  PROVE  LET c == EnsureToken(k, now, ttl)
         IN /\ c \in Clients /\ TokenInv(c) /\ c.sent = k.sent /\ c.given >= k.given
            /\ c.held => /\ c.token.number \in 1 .. c.given
                         /\ \/ c.token.number > k.given
                            \/ c.token = k.token /\ now + TIMEOUT_SECONDS <= c.token.ends
<1> DEFINE c == EnsureToken(k, now, ttl)
           new == [number |-> k.given + 1, until |-> now + ttl - TOKEN_REFRESH_LEAD_SECONDS, ends |-> now + ttl]
<1>1. k.given \in Nat /\ k.token \in Tokens /\ new \in Tokens
  BY DEF Clients, Tokens, TOKEN_REFRESH_LEAD_SECONDS
<1> HIDE DEF new
<1>2. CASE KeptToken(k.token, now)
  <2>1. c = [k EXCEPT !.held = TRUE]
    BY <1>2, Zenon DEF EnsureToken
  <2>2. c \in Clients /\ c.token = k.token /\ c.given = k.given /\ c.sent = k.sent
    BY <2>1 DEF Clients
  <2> HIDE DEF c
  <2>3. k.token # NoToken /\ now < k.token.until
    BY <1>2 DEF KeptToken
  <2>4. k.token.number \in 1 .. k.given /\ k.token.ends = k.token.until + 30
    BY <2>3 DEF TokenInv, TOKEN_REFRESH_LEAD_SECONDS
  <2>5. now + TIMEOUT_SECONDS <= k.token.ends
    BY <1>1, <2>3, <2>4 DEF TIMEOUT_SECONDS, Tokens
  <2>6. TokenInv(c)
    BY <2>2 DEF TokenInv
  <2> QED
    BY <1>1, <2>2, <2>4, <2>5, <2>6 DEF c
<1>3. CASE ~ KeptToken(k.token, now) /\ ttl < 0
  <2>1. c = [k EXCEPT !.held = FALSE]
    BY <1>3, Zenon DEF EnsureToken
  <2>2. c \in Clients /\ c.token = k.token /\ c.given = k.given /\ c.sent = k.sent
    BY <2>1 DEF Clients
  <2>3. ~ c.held
    BY <2>1 DEF Clients
  <2> HIDE DEF c
  <2>4. TokenInv(c)
    BY <2>2 DEF TokenInv
  <2> QED
    BY <1>1, <2>2, <2>3, <2>4 DEF c
<1>4. CASE ~ KeptToken(k.token, now) /\ ~ ttl < 0
  <2>1. c = [k EXCEPT !.held = TRUE, !.given = k.given + 1, !.token = new]
    BY <1>4, Zenon DEF EnsureToken, new
  <2>2. k.given + 1 \in Nat
    BY <1>1
  <2>3. c \in Clients /\ c.token = new /\ c.given = k.given + 1 /\ c.sent = k.sent
    BY <1>1, <2>1, <2>2, Zenon DEF Clients
  <2> HIDE DEF c
  <2>4. c.token.number = c.given /\ c.token.ends = c.token.until + TOKEN_REFRESH_LEAD_SECONDS
    BY <1>1, <1>4, <2>3 DEF new, TOKEN_REFRESH_LEAD_SECONDS
  <2>5. TokenInv(c)
    BY <1>1, <2>2, <2>3, <2>4 DEF TokenInv
  <2> QED
    BY <1>1, <2>3, <2>4, <2>5 DEF c
<1> QED
  BY <1>2, <1>3, <1>4

\* The call that an attempt sent with a token.
SentWith(t, now, answer) == [token |-> t, at |-> now, answer |-> answer]

\* What an attempt made of the client k: it sent its call once, with a token
\* of its own or one that outlasts it, or not at all.
AttemptTold(k, now, answer, c) ==
  \/ c.sent = k.sent /\ c.out = "raised" /\ ~ c.again
  \/ /\ c.again <=> answer = "401"
     /\ c.out = IF answer = "lost" THEN "raised" ELSE answer
     /\ answer = "401" /\ k.sent = <<>> => c.token = NoToken
     /\ \E t \in Tokens :
          /\ c.sent = Append(k.sent, SentWith(t, now, answer)) /\ t.number \in 1 .. c.given
          /\ t.number > k.given \/ (t = k.token /\ now + TIMEOUT_SECONDS <= t.ends)

\* An attempt of a client makes that of it.
LEMMA Attempted ==
  ASSUME NEW k \in Clients, TokenInv(k), NEW now \in Nat, NEW ttl \in Nat \cup {-1}, NEW answer \in CallAnswers
  PROVE  LET c == Attempt(k, now, ttl, answer)
         IN c \in Clients /\ TokenInv(c) /\ c.given >= k.given /\ AttemptTold(k, now, answer, c)
<1> DEFINE e == EnsureToken(k, now, ttl)  c == Attempt(k, now, ttl, answer)
<1>1. /\ e \in Clients /\ TokenInv(e) /\ e.sent = k.sent /\ e.given >= k.given
      /\ e.held => /\ e.token.number \in 1 .. e.given
                   /\ \/ e.token.number > k.given
                      \/ e.token = k.token /\ now + TIMEOUT_SECONDS <= e.token.ends
  BY TokenEnsured
<1>2. e.token \in Tokens /\ e.given \in Nat
  BY <1>1 DEF Clients
<1>3. CASE ~ e.held
  <2>1. c = [e EXCEPT !.out = "raised", !.again = FALSE]
    BY <1>3, Zenon DEF Attempt
  <2> HIDE DEF e
  <2>2. c \in Clients /\ c.token = e.token /\ c.given = e.given /\ c.sent = e.sent /\ c.out = "raised"
    BY <1>1, <2>1 DEF Clients
  <2>3. ~ c.again
    BY <1>1, <2>1 DEF Clients
  <2> HIDE DEF c
  <2>4. TokenInv(c)
    BY <1>1, <2>2 DEF TokenInv
  <2> QED
    BY <1>1, <2>2, <2>3, <2>4 DEF c, AttemptTold
<1>4. CASE e.held
  <2> DEFINE out == IF answer = "lost" THEN "raised" ELSE answer
             refused == answer = "401"
             call == SentWith(e.token, now, answer)
             token == IF answer = "401" /\ Len(e.sent) = 0 THEN NoToken ELSE e.token
  <2>1. c = [e EXCEPT !.sent = Append(e.sent, call), !.out = out, !.again = refused, !.token = token]
    BY <1>4, Zenon DEF Attempt, Sent, SentWith
  <2>2. /\ call \in [token : Tokens, at : Nat, answer : CallAnswers] /\ out \in CallAnswers \cup {"none", "raised"}
        /\ token \in Tokens
    BY <1>2 DEF SentWith, CallAnswers, NoToken, Tokens
  <2>3. refused \in BOOLEAN
    OBVIOUS
  <2> HIDE DEF out, refused, call, token
  <2> HIDE DEF e
  <2>4. e.sent \in Seq([token : Tokens, at : Nat, answer : CallAnswers])
    BY <1>1 DEF Clients
  <2>5. Append(e.sent, call) \in Seq([token : Tokens, at : Nat, answer : CallAnswers])
    BY <2>2, <2>4
  <2>6. /\ c \in Clients
        /\ c.sent = Append(e.sent, call) /\ c.out = out /\ c.again = refused
        /\ c.token = token /\ c.given = e.given
    <3>1. /\ e = [f \in DOMAIN e |-> e[f]]
          /\ DOMAIN e = {"token", "held", "given", "sent", "again", "out"}
      BY <1>1, Zenon DEF Clients
    <3>2. c = [token |-> token, held |-> e.held, given |-> e.given, sent |-> Append(e.sent, call),
               again |-> refused, out |-> out]
      BY <2>1, <3>1, Zenon
    <3>3. e.held \in BOOLEAN /\ e.given \in Nat
      BY <1>1, Zenon DEF Clients
    <3> HIDE DEF c
    <3>4. c \in Clients
      BY <2>2, <2>3, <2>5, <3>2, <3>3, Zenon DEF Clients
    <3> QED
      BY <3>2, <3>4, Zenon
  <2> HIDE DEF c
  <2>7. TokenInv(c)
    BY <1>1, <2>6 DEF TokenInv, token
  <2>8. k.sent = <<>> => Len(e.sent) = 0
    BY <1>1
  <2>9. answer = "401" /\ k.sent = <<>> => c.token = NoToken
    BY <2>6, <2>8 DEF token
  <2>10. c.again <=> answer = "401"
    BY <2>6, Zenon DEF refused
  <2>11. c.sent = Append(k.sent, SentWith(e.token, now, answer))
    BY <1>1, <2>6, Zenon DEF call
  <2>12. /\ e.token.number \in 1 .. c.given
         /\ e.token.number > k.given \/ (e.token = k.token /\ now + TIMEOUT_SECONDS <= e.token.ends)
    BY <1>1, <1>4, <2>6
  <2>13. c.out = IF answer = "lost" THEN "raised" ELSE answer
    BY <2>6 DEF out
  <2>14. c.given >= k.given
    BY <1>1, <2>6
  <2> QED
    BY <1>2, <2>6, <2>7, <2>9, <2>10, <2>11, <2>12, <2>13, <2>14, Zenon DEF c, AttemptTold
<1> QED
  BY <1>3, <1>4, Zenon


\* What a call's client says of it; before is how many tokens were given
\* before the call.
CallTold(c, before) ==
  /\ Len(c.sent) <= 2
  /\ \A i \in DOMAIN c.sent :
       /\ c.sent[i].token # NoToken
       /\ c.sent[i].token.number > before \/ c.sent[i].at + TIMEOUT_SECONDS <= c.sent[i].token.ends
  /\ Len(c.sent) = 2 => c.sent[1].answer = "401" /\ c.sent[1].token # c.sent[2].token
  /\ c.out = "401" => Len(c.sent) = 2
  /\ Len(c.sent) = 1 /\ c.sent[1].answer = "401" => c.out = "raised"

\* A sequence of two.
LEMMA Appended ==
  ASSUME NEW x, NEW y
  PROVE  LET s == Append(<<x>>, y)
         IN Len(s) = 2 /\ DOMAIN s = {1, 2} /\ s[1] = x /\ s[2] = y
<1>1. x \in {x, y} /\ y \in {x, y}
  OBVIOUS
<1> QED
  BY <1>1

\* A call is sent again only when its token was refused, with another one.
LEMMA Requested ==
  ASSUME NEW k \in Clients, TokenInv(k), NEW now \in Nat,
         NEW ttls \in [1 .. 2 -> Nat \cup {-1}], NEW answers \in [1 .. 2 -> CallAnswers]
  PROVE  LET c == Request(k, now, ttls, answers)
         IN c \in Clients /\ TokenInv(c) /\ CallTold(c, k.given)
<1> DEFINE fresh == [k EXCEPT !.sent = <<>>]
           first == Attempt(fresh, now, ttls[1], answers[1])
           again == Attempt(first, now, ttls[2], answers[2])
           c == Request(k, now, ttls, answers)
           One(t) == SentWith(t, now, answers[1])
           Two(t) == SentWith(t, now, answers[2])
<1>1. fresh \in Clients /\ fresh.token = k.token /\ fresh.given = k.given /\ fresh.sent = <<>>
  <2>1. << >> \in Seq([token : Tokens, at : Nat, answer : CallAnswers])
    OBVIOUS
  <2> QED
    BY <2>1, Zenon DEF Clients
<1>2. TokenInv(fresh)
  BY <1>1 DEF TokenInv
<1>3. /\ ttls[1] \in Nat \cup {-1} /\ ttls[2] \in Nat \cup {-1}
      /\ answers[1] \in CallAnswers /\ answers[2] \in CallAnswers
  OBVIOUS
<1>4. k.given \in Nat
  BY DEF Clients
<1> HIDE DEF fresh
<1>5. /\ first \in Clients /\ TokenInv(first) /\ first.given >= k.given
      /\ \/ first.sent = <<>> /\ first.out = "raised" /\ ~ first.again
         \/ /\ first.again <=> answers[1] = "401"
            /\ first.out = IF answers[1] = "lost" THEN "raised" ELSE answers[1]
            /\ answers[1] = "401" => first.token = NoToken
            /\ \E t \in Tokens :
                 /\ first.sent = Append(<<>>, One(t)) /\ t.number \in 1 .. first.given
                 /\ t.number > k.given \/ now + TIMEOUT_SECONDS <= t.ends
  <2>1. /\ first \in Clients /\ TokenInv(first) /\ first.given >= fresh.given
        /\ AttemptTold(fresh, now, answers[1], first)
    BY <1>1, <1>2, <1>3, Attempted, Zenon
  <2> HIDE DEF first
  <2> QED
    BY <1>1, <2>1 DEF AttemptTold
<1>6. c = IF first.again THEN again ELSE first
  BY Zenon DEF Request, fresh
<1>7. \A t \in Tokens : t.number \in Nat /\ t.ends \in Int /\ (t.number > 0 => t # NoToken)
  BY DEF Tokens, NoToken
<1>8. first.given \in Nat
  BY <1>5 DEF Clients
<1>9. CASE first.sent = <<>> /\ first.out = "raised" /\ ~ first.again
  <2>1. c = first
    BY <1>6, <1>9
  <2> QED
    BY <1>5, <1>9, <2>1 DEF CallTold
<1>10. ASSUME NEW t \in Tokens, first.again <=> answers[1] = "401",
              first.out = IF answers[1] = "lost" THEN "raised" ELSE answers[1],
              answers[1] = "401" => first.token = NoToken,
              first.sent = Append(<<>>, One(t)), t.number \in 1 .. first.given,
              t.number > k.given \/ now + TIMEOUT_SECONDS <= t.ends
       PROVE  c \in Clients /\ TokenInv(c) /\ CallTold(c, k.given)
  <2>1. first.sent = <<One(t)>>
    BY <1>10
  <2>2. One(t).token = t /\ One(t).at = now /\ One(t).answer = answers[1] /\ t # NoToken
    BY <1>7, <1>10 DEF SentWith
  <2>3. CASE ~ first.again
    <3>1. c = first
      BY <1>6, <2>3
    <3>2. first.out # "401"
      BY <1>3, <1>10, <2>3
    <3> HIDE DEF One, c, first
    <3>3. CallTold(first, k.given)
      BY <1>10, <2>1, <2>2, <2>3, <3>2 DEF CallTold
    <3> QED
      BY <1>5, <3>1, <3>3
  <2>4. CASE first.again
    <3>1. c = again
      BY <1>6, <2>4
    <3>2. answers[1] = "401" /\ first.token = NoToken
      BY <1>10, <2>4
    <3> HIDE DEF first
    <3>3. /\ again \in Clients /\ TokenInv(again)
          /\ \/ again.sent = first.sent /\ again.out = "raised"
             \/ \E u \in Tokens :
                  /\ again.sent = Append(first.sent, Two(u)) /\ u.number \in Nat \ {0}
                  /\ u.number > first.given \/ u = NoToken
      <4>1. again \in Clients /\ TokenInv(again) /\ AttemptTold(first, now, answers[2], again)
        BY <1>3, <1>5, Attempted, Zenon
      <4>2. again.given \in Nat
        BY <4>1 DEF Clients
      <4> HIDE DEF again
      <4> QED
        BY <3>2, <4>1, <4>2 DEF AttemptTold
    <3> HIDE DEF again
    <3>4. CASE again.sent = first.sent /\ again.out = "raised"
      <4>1. CallTold(again, k.given)
        BY <1>10, <2>1, <2>2, <3>4 DEF CallTold
      <4> QED
        BY <3>1, <3>3, <4>1
    <3>5. ASSUME NEW u \in Tokens, again.sent = Append(first.sent, Two(u)), u.number \in Nat \ {0},
                 u.number > first.given \/ u = NoToken
          PROVE  CallTold(again, k.given)
      <4>1. /\ Len(again.sent) = 2 /\ DOMAIN again.sent = {1, 2}
            /\ again.sent[1] = One(t) /\ again.sent[2] = Two(u)
        <5> HIDE DEF One, Two
        <5>1. again.sent = Append(<<One(t)>>, Two(u))
          BY <2>1, <3>5, Zenon
        <5> QED
          BY <5>1, Appended
      <4>2. Two(u).token = u /\ u # NoToken /\ u.number > first.given /\ u.number # t.number
        BY <1>7, <1>8, <1>10, <3>5 DEF SentWith
      <4>3. u.number > k.given /\ u # t
        BY <1>4, <1>5, <1>7, <1>8, <4>2
      <4> HIDE DEF One, Two
      <4> QED
        BY <1>10, <2>2, <3>2, <4>1, <4>2, <4>3 DEF CallTold
    <3> QED
      BY <3>1, <3>3, <3>4, <3>5
  <2> QED
    BY <2>3, <2>4
<1> HIDE DEF c, first, One
<1>11. CASE ~ (first.sent = <<>> /\ first.out = "raised" /\ ~ first.again)
  <2>1. /\ first.again <=> answers[1] = "401"
        /\ first.out = IF answers[1] = "lost" THEN "raised" ELSE answers[1]
        /\ answers[1] = "401" => first.token = NoToken
    BY <1>5, <1>11, Zenon
  <2>2. PICK t \in Tokens :
              /\ first.sent = Append(<<>>, One(t)) /\ t.number \in 1 .. first.given
              /\ t.number > k.given \/ now + TIMEOUT_SECONDS <= t.ends
    BY <1>5, <1>11, Zenon
  <2> QED
    BY <1>10, <2>1, <2>2, Zenon DEF c
<1> QED
  BY <1>9, <1>11 DEF c

\* A session is where its calls left it.
SessionInv ==
  job.kind = "session" =>
    /\ job.client \in Clients /\ TokenInv(job.client) /\ job.now \in Nat
    /\ CallTold(job.client, job.before)
    /\ job.client.out # "ok" => job.settings = [whitelist |-> {}, single |-> TRUE]

\* A call of a session leaves it so.
LEMMA SessionCalled ==
  ASSUME NEW k \in Clients, TokenInv(k), NEW now \in Nat, NEW calls, CallCatalog(k, now, calls)
  PROVE  SessionInv'
<1> DEFINE Values == [whitelist |-> <<"en">>, single |-> "no"]
<1>1. PICK ttls \in [1 .. 2 -> Ttls \cup {-1}], answers \in [1 .. 2 -> {"ok", "401", "error", "lost"}] :
        job' = SessionJob(Request(k, now, ttls, answers), now, calls + 1, k.given,
                          ParseSettings(SettingsOf(Request(k, now, ttls, answers), Values)))
  BY Zenon DEF CallCatalog
<1> DEFINE c == Request(k, now, ttls, answers)
<1>2. ttls \in [1 .. 2 -> Nat \cup {-1}] /\ answers \in [1 .. 2 -> CallAnswers]
  BY WritingsAssumption DEF CallAnswers
<1>3. c \in Clients /\ TokenInv(c) /\ CallTold(c, k.given)
  BY <1>2, Requested
<1> HIDE DEF c
<1>4. c.out # "ok" => ParseSettings(SettingsOf(c, Values)) = [whitelist |-> {}, single |-> TRUE]
  <2>1. DOMAIN << >> = {}
    OBVIOUS
  <2> QED
    BY <2>1 DEF SettingsOf, ParseSettings
<1> HIDE DEF Values
<1>5. /\ job'.client = c /\ job'.now = now /\ job'.before = k.given
      /\ job'.settings = ParseSettings(SettingsOf(c, Values))
  BY <1>1, Zenon DEF SessionJob, c, Values
<1> QED
  BY <1>3, <1>4, <1>5 DEF SessionInv

\* A client starts so.
LEMMA NewClientType == NewClient \in Clients /\ TokenInv(NewClient)
<1>1. NewClient.token = NoToken
  BY DEF NewClient
<1>2. NoToken \in Tokens /\ << >> \in Seq([token : Tokens, at : Nat, answer : CallAnswers])
  BY DEF NoToken, Tokens
<1> QED
  BY <1>1, <1>2, Zenon DEF NewClient, Clients, TokenInv

AnswersOf(n) == [1 .. n -> {"ok", "unsupported", "error", "lost"}]

\* The rounds of up to two answers are one after the other.
LEMMA Rounds ==
  ASSUME NEW n \in 0 .. 2, NEW a \in AnswersOf(n)
  PROVE  /\ n = 0 => RunReporter(a) = Reporter
         /\ n = 1 => RunReporter(a) = ReportOnce(Reporter, a[1])
         /\ n = 2 => RunReporter(a) = ReportOnce(ReportOnce(Reporter, a[1]), a[2])
<1> DEFINE D == DOMAIN a
           StepOf(f, s) == IF s = {} THEN Reporter ELSE ReportOnce(f[s \ {Max(s)}], a[Max(s)])
           rounds == CHOOSE f : f = [s \in SUBSET D |-> StepOf(f, s)]
           first == ReportOnce(Reporter, a[1])
           \* the same, written out
           told == [s \in SUBSET D |-> IF s = {} THEN Reporter ELSE IF s = {1} THEN first
                                       ELSE IF s = {2} THEN ReportOnce(Reporter, a[2])
                                       ELSE ReportOnce(first, a[2])]
<1>1. RunReporter(a) = rounds[D]
  BY Zenon DEF RunReporter, FoldLeft, MapThenFoldSet
<1>2. D = 1 .. n
  BY DEF AnswersOf
<1>3. Max({1}) = 1 /\ Max({2}) = 2 /\ Max({1, 2}) = 2
  BY DEF Max
<1>4. /\ n = 0 \/ n = 1 \/ n = 2
      /\ n = 0 => D = {}
      /\ n = 1 => D = {1}
      /\ n = 2 => D = {1, 2}
  BY <1>2
<1> HIDE DEF D
<1>5. ASSUME NEW s \in SUBSET D  PROVE s = {} \/ s = {1} \/ s = {2} \/ s = {1, 2}
  <2>1. D \subseteq {1, 2}
    BY <1>4
  <2> QED
    BY <2>1
<1>6. ASSUME NEW s \in SUBSET D  PROVE told[s] = StepOf(told, s)
  <2>1. CASE s = {}
    BY <2>1
  <2>2. CASE s = {1}
    <3>1. s \ {1} = {} /\ s # {} /\ {} \in SUBSET D
      BY <2>2
    <3> QED
      BY <1>3, <2>2, <3>1
  <2>3. CASE s = {2}
    <3>1. s \ {2} = {} /\ s # {} /\ s # {1} /\ {} \in SUBSET D
      BY <2>3
    <3> QED
      BY <1>3, <2>3, <3>1
  <2>4. CASE s = {1, 2}
    <3>1. s \ {2} = {1} /\ s # {} /\ s # {1} /\ s # {2} /\ {1} \in SUBSET D /\ {1} # {}
      BY <2>4
    <3>2. told[{1}] = first
      BY <3>1, Zenon
    <3> QED
      BY <1>3, <2>4, <3>1, <3>2
  <2> QED
    BY <1>5, <2>1, <2>2, <2>3, <2>4
<1>7. told = [s \in SUBSET D |-> StepOf(told, s)]
  BY <1>6, Zenon
<1>8. rounds = [s \in SUBSET D |-> StepOf(rounds, s)]
  BY <1>7, Zenon
<1> HIDE DEF rounds, told
<1>9. \A s \in SUBSET D : rounds[s] = StepOf(rounds, s)
  BY <1>8, Zenon
<1>10. rounds[{}] = Reporter
  BY <1>9
<1>11. {1} \in SUBSET D => rounds[{1}] = first
  <2>1. {1} \ {1} = {} /\ {1} # {}
    OBVIOUS
  <2> QED
    BY <1>9, <1>10, <1>3, <2>1
<1>12. {1, 2} \in SUBSET D => rounds[{1, 2}] = ReportOnce(first, a[2])
  <2> SUFFICES ASSUME {1, 2} \in SUBSET D  PROVE rounds[{1, 2}] = ReportOnce(first, a[2])
    OBVIOUS
  <2>1. {1, 2} \ {2} = {1} /\ {1, 2} # {} /\ {1} \in SUBSET D
    OBVIOUS
  <2>2. rounds[{1, 2}] = ReportOnce(rounds[{1, 2} \ {2}], a[2])
    BY <1>9, <1>3, <2>1, Zenon
  <2> QED
    BY <1>11, <2>1, <2>2
<1> QED
  BY <1>1, <1>4, <1>10, <1>11, <1>12

Reports == [rounds : Nat, unsupportedSaid : BOOLEAN, said : Nat, reported : BOOLEAN, taken : BOOLEAN]

\* What one report changes.
LEMMA OneRound ==
  ASSUME NEW r \in Reports, NEW answer \in {"ok", "unsupported", "error", "lost"}
  PROVE  /\ ReportOnce(r, answer) \in Reports
         /\ ReportOnce(r, answer).rounds = r.rounds + 1
         /\ ReportOnce(r, answer).taken <=> (answer = "ok")
         /\ ReportOnce(r, answer).unsupportedSaid <=> (r.unsupportedSaid \/ answer = "unsupported")
         /\ ReportOnce(r, answer).said =
              IF answer = "unsupported" /\ ~ r.unsupportedSaid THEN r.said + 1 ELSE r.said
<1> DEFINE took == answer = "ok"
           q == [r EXCEPT !.rounds = r.rounds + 1, !.taken = took]
<1>1. q \in Reports
  <2>1. ASSUME NEW n \in Nat, NEW b \in BOOLEAN
        PROVE  [r EXCEPT !.rounds = n, !.taken = b] \in Reports
    BY DEF Reports
  <2>2. took \in BOOLEAN /\ r.rounds + 1 \in Nat
    BY DEF Reports
  <2> HIDE DEF took
  <2> QED
    BY <2>1, <2>2, Zenon
<1>2. q.rounds = r.rounds + 1 /\ q.said = r.said
  BY DEF Reports
<1>3. q.unsupportedSaid <=> r.unsupportedSaid
  BY DEF Reports
<1>4. q.taken <=> (answer = "ok")
  BY DEF Reports
<1> HIDE DEF q
<1>5. CASE answer = "unsupported"
  <2> DEFINE n == IF r.unsupportedSaid THEN q.said ELSE q.said + 1
             u == [q EXCEPT !.unsupportedSaid = TRUE, !.said = n]
  <2>1. ReportOnce(r, answer) = u
    BY <1>5, Zenon DEF ReportOnce, q
  <2>2. n \in Nat
    BY <1>1 DEF Reports
  <2> HIDE DEF n
  <2>3. u \in Reports /\ u.rounds = q.rounds /\ u.said = n
    BY <1>1, <2>2 DEF Reports
  <2>4. u.unsupportedSaid
    BY <1>1 DEF Reports
  <2>5. u.taken <=> q.taken
    BY <1>1 DEF Reports
  <2> HIDE DEF u
  <2>6. u.said = IF ~ r.unsupportedSaid THEN r.said + 1 ELSE r.said
    BY <1>2, <2>3 DEF n
  <2> QED
    BY <1>2, <1>4, <1>5, <2>1, <2>3, <2>4, <2>5, <2>6
<1>6. CASE answer = "ok"
  <2> DEFINE k == [q EXCEPT !.reported = TRUE]
  <2>1. ReportOnce(r, answer) = k
    BY <1>6, Zenon DEF ReportOnce, q
  <2>2. k \in Reports /\ k.rounds = q.rounds /\ k.said = q.said
    BY <1>1 DEF Reports
  <2>3. k.taken <=> q.taken
    BY <1>1 DEF Reports
  <2>4. k.unsupportedSaid <=> q.unsupportedSaid
    BY <1>1 DEF Reports
  <2> HIDE DEF k
  <2> QED
    BY <1>2, <1>3, <1>4, <1>6, <2>1, <2>2, <2>3, <2>4
<1>7. CASE answer \in {"error", "lost"}
  <2>1. ReportOnce(r, answer) = q
    BY <1>7 DEF ReportOnce, q
  <2> QED
    BY <1>1, <1>2, <1>3, <1>4, <1>7, <2>1
<1> QED
  BY <1>5, <1>6, <1>7

\* A round's answer is told, and once.
ReportTells(r, a) ==
  /\ r.rounds = Len(a) /\ r.said <= 1
  /\ (r.said = 1) = ("unsupported" \in Range(a))
  /\ r.taken = (a # <<>> /\ Last(a) = "ok")

\* The rounds tell each answer, up to two of them.
LEMMA ReporterTells ==
  ASSUME NEW n \in 0 .. 2, NEW a \in AnswersOf(n), Len(a) = n
  PROVE  ReportTells(RunReporter(a), a)
<1> DEFINE r == RunReporter(a)  Words == {"ok", "unsupported", "error", "lost"}
           last == a # <<>> /\ Last(a) = "ok"  some == "unsupported" \in Range(a)
<1>1. /\ Reporter \in Reports /\ Reporter.rounds = 0 /\ Reporter.said = 0
      /\ ~ Reporter.unsupportedSaid /\ ~ Reporter.taken
  BY DEF Reports, Reporter
<1>2. SUFFICES r \in Reports /\ r.rounds = n /\ r.said <= 1 /\ (r.said = 1 <=> some) /\ (r.taken <=> last)
  <2>1. r.taken \in BOOLEAN
    BY <1>2 DEF Reports
  <2>2. r.taken = last
    BY <1>2, <2>1, Zenon
  <2>3. (r.said = 1) = some
    BY <1>2
  <2> QED
    BY <1>2, <2>2, <2>3, Zenon DEF ReportTells
<1>3. n = 0 \/ n = 1 \/ n = 2
  OBVIOUS
<1> HIDE DEF r, last, some
<1>4. CASE n = 0
  <2>1. r = Reporter
    BY <1>4, Rounds DEF r
  <2>2. ~ last /\ ~ some
    BY <1>4 DEF AnswersOf, Range, last, some
  <2> QED
    BY <1>1, <1>4, <2>1, <2>2
<1>5. CASE n = 1
  <2>1. r = ReportOnce(Reporter, a[1]) /\ a[1] \in Words
    BY <1>5, Rounds DEF AnswersOf, r
  <2>2. last <=> a[1] = "ok"
    BY <1>5 DEF AnswersOf, Last, last
  <2>3. some <=> a[1] = "unsupported"
    BY <1>5 DEF AnswersOf, Range, some
  <2> QED
    BY <1>1, <1>5, <2>1, <2>2, <2>3, OneRound
<1>6. CASE n = 2
  <2> DEFINE q == ReportOnce(Reporter, a[1])
  <2>1. r = ReportOnce(q, a[2]) /\ a[1] \in Words /\ a[2] \in Words
    BY <1>6, Rounds DEF AnswersOf, r
  <2>2. last <=> a[2] = "ok"
    BY <1>6 DEF AnswersOf, Last, last
  <2>3. some <=> a[1] = "unsupported" \/ a[2] = "unsupported"
    BY <1>6 DEF AnswersOf, Range, some
  <2>4. /\ q \in Reports /\ q.rounds = 1 /\ (q.unsupportedSaid <=> a[1] = "unsupported")
        /\ q.said = IF a[1] = "unsupported" THEN 1 ELSE 0
    BY <1>1, <2>1, OneRound
  <2> HIDE DEF q
  <2>5. /\ r \in Reports /\ r.rounds = q.rounds + 1 /\ (r.taken <=> a[2] = "ok")
        /\ r.said = IF a[2] = "unsupported" /\ ~ q.unsupportedSaid THEN q.said + 1 ELSE q.said
    BY <2>1, <2>4, OneRound
  <2>6. r.said <= 1 /\ (r.said = 1 <=> a[1] = "unsupported" \/ a[2] = "unsupported")
    BY <2>4, <2>5
  <2> QED
    BY <1>6, <2>2, <2>3, <2>4, <2>5, <2>6
<1> QED
  BY <1>3, <1>4, <1>5, <1>6

PreferredWords == {"", "de"}
PreferredOf(n) == [1 .. n -> PreferredWords]

\* None of the preferred languages a process packages with is empty.
LEMMA PreferredNamed ==
  ASSUME NEW n \in 0 .. 2, NEW a \in PreferredOf(n)
  PROVE  "" \notin Range(FoldLeft(AddPreferred, <<>>, a))
<1> DEFINE D == DOMAIN a
           StepOf(f, s) == IF s = {} THEN <<>> ELSE AddPreferred(f[s \ {Max(s)}], a[Max(s)])
           kept == CHOOSE f : f = [s \in SUBSET D |-> StepOf(f, s)]
           first == AddPreferred(<<>>, a[1])
           \* the same, written out
           told == [s \in SUBSET D |-> IF s = {} THEN <<>> ELSE IF s = {1} THEN first
                                       ELSE IF s = {2} THEN AddPreferred(<<>>, a[2])
                                       ELSE AddPreferred(first, a[2])]
<1>1. FoldLeft(AddPreferred, <<>>, a) = kept[D]
  BY Zenon DEF FoldLeft, MapThenFoldSet
<1>2. D = 1 .. n
  BY DEF PreferredOf
<1>3. Max({1}) = 1 /\ Max({2}) = 2 /\ Max({1, 2}) = 2
  BY DEF Max
<1>4. /\ n = 0 \/ n = 1 \/ n = 2
      /\ n = 0 => D = {}
      /\ n = 1 => D = {1}
      /\ n = 2 => D = {1, 2}
  BY <1>2
<1> HIDE DEF D
<1>5. ASSUME NEW s \in SUBSET D  PROVE s = {} \/ s = {1} \/ s = {2} \/ s = {1, 2}
  <2>1. D \subseteq {1, 2}
    BY <1>4
  <2> QED
    BY <2>1
<1>6. ASSUME NEW s \in SUBSET D  PROVE told[s] = StepOf(told, s)
  <2>1. CASE s = {}
    BY <2>1
  <2>2. CASE s = {1}
    <3>1. s \ {1} = {} /\ s # {} /\ {} \in SUBSET D
      BY <2>2
    <3> QED
      BY <1>3, <2>2, <3>1
  <2>3. CASE s = {2}
    <3>1. s \ {2} = {} /\ s # {} /\ s # {1} /\ {} \in SUBSET D
      BY <2>3
    <3> QED
      BY <1>3, <2>3, <3>1
  <2>4. CASE s = {1, 2}
    <3>1. s \ {2} = {1} /\ s # {} /\ s # {1} /\ s # {2} /\ {1} \in SUBSET D /\ {1} # {}
      BY <2>4
    <3>2. told[{1}] = first
      BY <3>1, Zenon
    <3> QED
      BY <1>3, <2>4, <3>1, <3>2
  <2> QED
    BY <1>5, <2>1, <2>2, <2>3, <2>4
<1>7. told = [s \in SUBSET D |-> StepOf(told, s)]
  BY <1>6, Zenon
<1>8. kept = [s \in SUBSET D |-> StepOf(kept, s)]
  BY <1>7, Zenon
<1> HIDE DEF kept, told
<1>9. \A s \in SUBSET D : kept[s] = StepOf(kept, s)
  BY <1>8, Zenon
<1>10. kept[{}] = <<>>
  BY <1>9
<1>11. {1} \in SUBSET D => kept[{1}] = first
  <2>1. {1} \ {1} = {} /\ {1} # {}
    OBVIOUS
  <2> QED
    BY <1>9, <1>10, <1>3, <2>1
<1>12. {1, 2} \in SUBSET D => kept[{1, 2}] = AddPreferred(first, a[2])
  <2> SUFFICES ASSUME {1, 2} \in SUBSET D  PROVE kept[{1, 2}] = AddPreferred(first, a[2])
    OBVIOUS
  <2>1. {1, 2} \ {2} = {1} /\ {1, 2} # {} /\ {1} \in SUBSET D
    OBVIOUS
  <2>2. kept[{1, 2}] = AddPreferred(kept[{1, 2} \ {2}], a[2])
    BY <1>9, <1>3, <2>1, Zenon
  <2> QED
    BY <1>11, <2>1, <2>2
<1>13. ASSUME NEW s \in Seq({"de"}), NEW l \in PreferredWords  PROVE AddPreferred(s, l) \in Seq({"de"})
  <2>1. Append(s, "de") \in Seq({"de"})
    OBVIOUS
  <2> QED
    BY <2>1, Zenon DEF AddPreferred, PreferredWords
<1>14. /\ n = 1 => a[1] \in PreferredWords
       /\ n = 2 => a[1] \in PreferredWords /\ a[2] \in PreferredWords
  BY DEF PreferredOf
<1>15. << >> \in Seq({"de"})
  OBVIOUS
<1>16. n = 1 \/ n = 2 => first \in Seq({"de"})
  BY <1>13, <1>14, <1>15, Zenon
<1>17. n = 2 => AddPreferred(first, a[2]) \in Seq({"de"})
  BY <1>13, <1>14, <1>16, Zenon
<1> DEFINE all == FoldLeft(AddPreferred, <<>>, a)
<1> HIDE DEF all, first
<1>18. all \in Seq({"de"})
  <2>1. all = kept[D]
    BY <1>1 DEF all
  <2> QED
    BY <2>1, <1>4, <1>10, <1>11, <1>12, <1>15, <1>16, <1>17
<1>19. "" \notin Range(all)
  <2>1. Range(all) \subseteq {"de"}
    BY <1>18 DEF Range
  <2> QED
    BY <2>1, Zenon
<1> QED
  BY <1>19 DEF all

\* What a process reports, and what it packages with.
ProcessTold(j) ==
  /\ ReportTells(j.reporter, j.answers)
  /\ Last(j.topic) = "." /\ Len(j.topic) = 2
  /\ \A p \in j.payloads : p.surroundAudio \in {"eac3", "ac3", "off"} /\ "" \notin Range(p.preferredLanguages)

\* Whatever the catalog answers a process.
LEMMA AnswersTold ==
  ASSUME NEW a \in UpTo(2, {"ok", "unsupported", "error", "lost"})
  PROVE  ReportTells(RunReporter(a), a)
<1>1. PICK n \in 0 .. 2 : a \in AnswersOf(n) /\ Len(a) = n
  BY DEF UpTo, AnswersOf
<1> QED
  BY <1>1, ReporterTells

\* The extras' topic is under its prefix.
LEMMA TopicEnds ==
  ASSUME NEW prefix \in {<<>>, <<"tenant">>, <<"tenant", ".">>}
  PROVE  Last(TopicPrefix(prefix)) = "." /\ Len(TopicPrefix(prefix)) = 2
<1>1. CASE prefix = <<>>
  BY <1>1 DEF TopicPrefix, Last
<1>2. CASE prefix = <<"tenant">>
  <2>1. TopicPrefix(prefix) = Append(<<"tenant">>, ".")
    BY <1>2 DEF TopicPrefix, Last
  <2> QED
    BY <2>1, Appended DEF Last
<1>3. CASE prefix = <<"tenant", ".">>
  BY <1>3 DEF TopicPrefix, Last
<1> QED
  BY <1>1, <1>2, <1>3

\* What the rules' report says is what a process may package with.
LEMMA PayloadSays ==
  ASSUME NEW env, NEW c \in FromEnv(env), NEW tools, env.preferred \in UpTo(2, PreferredWords)
  PROVE  LET p == RulesPayload(PackageOptions(c), tools)
         IN p.surroundAudio \in SURROUND_CODECS /\ "" \notin Range(p.preferredLanguages)
<1>1. c.surround \in SURROUND_CODECS /\ c.preferred = env.preferred
  BY DEF FromEnv
<1>2. PICK n \in 0 .. 2 : env.preferred \in PreferredOf(n)
  BY DEF UpTo, PreferredOf
<1>3. "" \notin Range(FoldLeft(AddPreferred, <<>>, env.preferred))
  BY <1>2, PreferredNamed, Zenon
<1>4. /\ RulesPayload(PackageOptions(c), tools).surroundAudio = c.surround
      /\ RulesPayload(PackageOptions(c), tools).preferredLanguages = FoldLeft(AddPreferred, <<>>, c.preferred)
  BY Zenon DEF RulesPayload, PackageOptions
<1> QED
  BY <1>1, <1>3, <1>4, Zenon

\* A process that starts tells so, or doesn't start.
LEMMA ProcessStarted ==
  ASSUME StartProcess
  PROVE  ProcessTold(job')
<1>1. PICK surround \in {"eac3", "off", "dts"}, given \in {Required, Required \ {"OIDC_TOKEN_URL"}},
           preferred \in UpTo(2, {"", "de"}), prefix \in {<<>>, <<"tenant">>, <<"tenant", ".">>},
           tools \in SUBSET {"mkvmerge", "mkvextract"}, answers \in UpTo(2, {"ok", "unsupported", "error", "lost"}) :
        LET config == FromEnv([surround |-> surround, given |-> given, preferred |-> preferred])
        IN job' = [kind |-> "process", configs |-> config, topic |-> TopicPrefix(prefix), answers |-> answers,
                   payloads |-> {RulesPayload(PackageOptions(c), tools) : c \in config},
                   reporter |-> RunReporter(answers)]
  BY Zenon DEF StartProcess
<1> DEFINE env == [surround |-> surround, given |-> given, preferred |-> preferred]
           payloads == {RulesPayload(PackageOptions(c), tools) : c \in FromEnv(env)}
<1>2. /\ job'.topic = TopicPrefix(prefix) /\ job'.answers = answers /\ job'.payloads = payloads
      /\ job'.reporter = RunReporter(answers)
  BY <1>1, Zenon
<1>3. ReportTells(RunReporter(answers), answers)
  BY AnswersTold, Zenon
<1>4. Last(TopicPrefix(prefix)) = "." /\ Len(TopicPrefix(prefix)) = 2
  BY TopicEnds, Zenon
<1>5. env.preferred \in UpTo(2, PreferredWords)
  BY Zenon DEF PreferredWords
<1> HIDE DEF env
<1>6. \A c \in FromEnv(env) : LET p == RulesPayload(PackageOptions(c), tools)
                              IN p.surroundAudio \in SURROUND_CODECS /\ "" \notin Range(p.preferredLanguages)
  BY <1>5, PayloadSays, Zenon
<1>7. \A p \in payloads : p.surroundAudio \in {"eac3", "ac3", "off"} /\ "" \notin Range(p.preferredLanguages)
  BY <1>6, Zenon DEF SURROUND_CODECS
<1> HIDE DEF payloads
<1> QED
  BY <1>2, <1>3, <1>4, <1>7, Zenon DEF ProcessTold

\* THEOREM: what the catalog took is never asked of it twice, a call's token
\* outlasts it or is its own, a run goes on without the settings it can't get,
\* and the rules are reported round after round, for any number of calls and
\* any tokens (_ensure_token, _request, settings, RulesReporter).
THEOREM CallsAlwaysOnce == Spec => []CallsAreOnce
<1> DEFINE ProcessInv == job.kind = "process" => ProcessTold(job)
           CallInv == SessionInv /\ ProcessInv
<1>1. Init => CallInv
  BY DEF Init, SessionInv
<1>2. CallInv /\ [Next]_job => CallInv'
  <2> SUFFICES ASSUME CallInv, [Next]_job  PROVE CallInv'
    OBVIOUS
  <2>1. CASE UNCHANGED job
    BY <2>1 DEF SessionInv, ProcessTold, ReportTells
  <2>2. CASE OpenSession
    <3>1. SessionInv'
      BY <2>2, NewClientType, SessionCalled DEF OpenSession
    <3> QED
      BY <2>2, <3>1, WritingKinds
  <2>3. CASE CallAgain
    <3>1. PICK later \in Ttls : CallCatalog(job.client, job.now + later, job.calls)
      BY <2>3, Zenon DEF CallAgain
    <3>2. job.client \in Clients /\ TokenInv(job.client) /\ job.now + later \in Nat
      BY <2>3, WritingsAssumption DEF CallAgain, SessionInv
    <3>3. SessionInv'
      BY <3>1, <3>2, SessionCalled
    <3> QED
      BY <2>3, <3>3, WritingKinds
  <2>4. CASE StartProcess
    <3>1. ProcessTold(job')
      BY <2>4, ProcessStarted
    <3>2. job'.kind = "process"
      BY <2>4, WritingKinds
    <3> QED
      BY <3>1, <3>2 DEF SessionInv
  <2>5. CASE job'.kind \notin {"session", "process"}
    BY <2>5 DEF SessionInv
  <2> QED
    BY <2>1, <2>2, <2>3, <2>4, <2>5, OtherCalls
<1>3. CallInv => CallsAreOnce
  BY Zenon DEF CallsAreOnce, SessionInv, CallTold, ProcessTold, ReportTells
<1> QED
  BY <1>1, <1>2, <1>3, PTL DEF Spec

(***************************************************************************)
(* The levels of a mix.                                                    *)
(***************************************************************************)

OneOf(s) == CHOOSE x \in s : TRUE
SumFrom(g, F, s) == IF s = {} THEN 0 ELSE g[OneOf(s)] + F[s \ {OneOf(s)}]

\* The sums of the parts of a finite set of numbers can be made one after the
\* other.
LEMMA PartialSums ==
  ASSUME NEW D, IsFiniteSet(D), NEW g, \A x \in D : g[x] \in Int
  PROVE  \E F \in [SUBSET D -> Int] : \A s \in SUBSET D : F[s] = SumFrom(g, F, s)
<1> DEFINE UpTo_(n) == {s \in SUBSET D : Cardinality(s) <= n}
           Good(n) == \E F \in [UpTo_(n) -> Int] : \A s \in UpTo_(n) : F[s] = SumFrom(g, F, s)
           Bad == {n \in Nat : ~ Good(n)}
<1>1. \A s \in SUBSET D : /\ IsFiniteSet(s) /\ Cardinality(s) \in Nat /\ Cardinality(s) <= Cardinality(D)
                          /\ Cardinality(s) = 0 <=> s = {}
  BY FS_Subset, FS_CardinalityType, FS_EmptySet
<1>2. \A s \in SUBSET D : s # {} => /\ OneOf(s) \in s /\ OneOf(s) \in D /\ s \ {OneOf(s)} \in SUBSET D
                                    /\ Cardinality(s \ {OneOf(s)}) = Cardinality(s) - 1
  BY <1>1, FS_RemoveElement DEF OneOf
<1>3. Good(0)
  <2>1. \A s \in UpTo_(0) : s = {}
    BY <1>1
  <2>2. [s \in UpTo_(0) |-> 0] \in [UpTo_(0) -> Int]
    OBVIOUS
  <2> QED
    BY <2>1, <2>2 DEF SumFrom
<1>4. ASSUME NEW n \in Nat, n # 0, Good(n - 1)
      PROVE  Good(n)
  <2>1. PICK F \in [UpTo_(n - 1) -> Int] : \A s \in UpTo_(n - 1) : F[s] = SumFrom(g, F, s)
    BY <1>4
  <2> DEFINE G == [s \in UpTo_(n) |-> SumFrom(g, F, s)]
  <2>2. \A s \in UpTo_(n) : s # {} => s \ {OneOf(s)} \in UpTo_(n - 1)
    BY <1>1, <1>2
  <2>3. \A s \in UpTo_(n - 1) : s \in UpTo_(n)
    BY <1>1
  <2> HIDE DEF UpTo_
  <2>4. \A s \in UpTo_(n - 1) : G[s] = F[s]
    BY <2>1, <2>3
  <2>5. \A s \in UpTo_(n) : SumFrom(g, F, s) = SumFrom(g, G, s)
    BY <2>2, <2>4 DEF SumFrom
  <2>6. \A s \in UpTo_(n) : SumFrom(g, F, s) \in Int
    <3>1. \A s \in UpTo_(n) : s \in SUBSET D
      BY DEF UpTo_
    <3> QED
      BY <1>2, <2>2, <2>1, <3>1 DEF SumFrom
  <2>7. G \in [UpTo_(n) -> Int]
    BY <2>6
  <2>8. \A s \in UpTo_(n) : G[s] = SumFrom(g, G, s)
    BY <2>5
  <2> QED
    BY <2>7, <2>8, Zenon
<1> HIDE DEF Good
<1>5. Bad = {}
  <2> SUFFICES ASSUME Bad # {}  PROVE FALSE
    OBVIOUS
  <2>1. PICK n \in Bad : \A m \in Bad : n <= m
    BY LeastNumber
  <2>2. n \in Nat /\ ~ Good(n) /\ n # 0
    BY <1>3
  <2>3. n - 1 \in Nat /\ n - 1 \notin Bad
    BY <2>1, <2>2
  <2>4. Good(n - 1)
    BY <2>3
  <2> QED
    BY <1>4, <2>2, <2>4
<1>6. Cardinality(D) \in Nat /\ Good(Cardinality(D))
  BY <1>5, FS_CardinalityType
<1>7. UpTo_(Cardinality(D)) = SUBSET D
  BY <1>1
<1> HIDE DEF UpTo_
<1> QED
  BY <1>6, <1>7 DEF Good

\* ... and are numbers, and none below none if the parts are none.
LEMMA SumsAreNumbers ==
  ASSUME NEW T \in {Nat, Int}, NEW D, IsFiniteSet(D), NEW g, \A x \in D : g[x] \in T,
         NEW F, \A s \in SUBSET D : F[s] = SumFrom(g, F, s)
  PROVE  F[D] \in T
<1> DEFINE Bad == {n \in Nat : \E s \in SUBSET D : Cardinality(s) = n /\ F[s] \notin T}
<1>1. \A s \in SUBSET D : IsFiniteSet(s) /\ Cardinality(s) \in Nat
  BY FS_Subset, FS_CardinalityType
<1>2. \A s \in SUBSET D : s # {} => /\ OneOf(s) \in D /\ s \ {OneOf(s)} \in SUBSET D
                                    /\ Cardinality(s \ {OneOf(s)}) = Cardinality(s) - 1
  BY <1>1, FS_RemoveElement DEF OneOf
<1>3. F[{}] \in T
  <2>1. F[{}] = 0
    BY {} \in SUBSET D DEF SumFrom
  <2> QED
    BY <2>1
<1>4. Bad = {}
  <2> SUFFICES ASSUME Bad # {}  PROVE FALSE
    OBVIOUS
  <2>1. PICK n \in Bad : \A m \in Bad : n <= m
    BY LeastNumber
  <2>2. PICK s \in SUBSET D : Cardinality(s) = n /\ F[s] \notin T
    BY <2>1
  <2>3. s # {}
    BY <1>3, <2>2, Zenon
  <2>4. Cardinality(s \ {OneOf(s)}) \in Nat /\ Cardinality(s \ {OneOf(s)}) \notin Bad
    BY <1>1, <1>2, <2>1, <2>2, <2>3
  <2>5. F[s \ {OneOf(s)}] \in T
    BY <1>2, <2>3, <2>4
  <2> QED
    BY <1>2, <2>2, <2>3, <2>5 DEF SumFrom
<1> QED
  BY <1>1, <1>4

\* Of finitely many numbers one is the largest.
LEMMA LargestRank ==
  ASSUME NEW T, IsFiniteSet(T), T # {}, NEW rank, \A i \in T : rank[i] \in Int
  PROVE  \E t \in T : \A s \in T : rank[s] <= rank[t]
<1> DEFINE Good(S) == \E t \in S : \A s \in S : rank[s] <= rank[t]
           Bad == {n \in Nat : \E S \in SUBSET T : Cardinality(S) = n /\ S # {} /\ ~ Good(S)}
<1>1. \A S \in SUBSET T : IsFiniteSet(S) /\ Cardinality(S) \in Nat
  BY FS_Subset, FS_CardinalityType
<1>2. ASSUME NEW S \in SUBSET T, NEW x \in S
      PROVE  /\ S \ {x} \in SUBSET T /\ Cardinality(S \ {x}) = Cardinality(S) - 1
             /\ Cardinality(S \ {x}) \in Nat
  BY <1>1, FS_RemoveElement
<1>3. ASSUME NEW S \in SUBSET T, NEW x \in S, S \ {x} = {} \/ Good(S \ {x})
      PROVE  Good(S)
  <2>1. x \in T /\ rank[x] \in Int /\ rank[x] <= rank[x]
    OBVIOUS
  <2>2. CASE S \ {x} = {}
    <3>1. \A s \in S : s = x
      BY <2>2
    <3> QED
      BY <2>1, <3>1, Zenon
  <2>3. CASE Good(S \ {x})
    <3>1. PICK t \in S \ {x} : \A s \in S \ {x} : rank[s] <= rank[t]
      BY <2>3
    <3>2. rank[t] \in Int /\ \A s \in S : rank[s] \in Int
      OBVIOUS
    <3>3. CASE rank[t] <= rank[x]
      <4>1. \A s \in S : rank[s] <= rank[x]
        BY <2>1, <3>1, <3>2, <3>3
      <4> QED
        BY <4>1
    <3>4. CASE rank[x] <= rank[t]
      <4>1. \A s \in S : rank[s] <= rank[t]
        BY <2>1, <3>1, <3>2, <3>4
      <4> QED
        BY <4>1
    <3> QED
      BY <2>1, <3>2, <3>3, <3>4
  <2> QED
    BY <1>3, <2>2, <2>3
<1> HIDE DEF Good
<1>4. Bad = {}
  <2> SUFFICES ASSUME Bad # {}  PROVE FALSE
    OBVIOUS
  <2>1. PICK n \in Bad : \A m \in Bad : n <= m
    BY LeastNumber
  <2>2. PICK S \in SUBSET T : Cardinality(S) = n /\ S # {} /\ ~ Good(S)
    BY <2>1
  <2>3. PICK x \in S : TRUE
    BY <2>2
  <2>4. S \ {x} \in SUBSET T /\ Cardinality(S \ {x}) = n - 1 /\ n - 1 \in Nat
    BY <1>2, <2>2
  <2>5. n - 1 \notin Bad
    BY <2>1, <2>4
  <2>6. S \ {x} = {} \/ Good(S \ {x})
    BY <2>4, <2>5
  <2> QED
    BY <1>3, <2>2, <2>6
<1>5. T \in SUBSET T /\ Cardinality(T) \in Nat
  BY <1>1
<1>6. Good(T)
  BY <1>4, <1>5
<1> QED
  BY <1>6 DEF Good

\* A sum of numbers is one.
LEMMA SumIs ==
  ASSUME NEW T \in {Nat, Int}, NEW g, IsFiniteSet(DOMAIN g), \A x \in DOMAIN g : g[x] \in T
  PROVE  FoldFunction(+, 0, g) \in T
<1> DEFINE D == DOMAIN g
           iter == CHOOSE f : f = [s \in SUBSET D |-> IF s = {} THEN 0
                                     ELSE g[CHOOSE x \in s : TRUE] + f[s \ {CHOOSE x \in s : TRUE}]]
<1>1. FoldFunction(+, 0, g) = iter[D]
  BY Zenon DEF FoldFunction, FoldFunctionOnSet, MapThenFoldSet
<1>2. PICK F \in [SUBSET D -> Int] : \A s \in SUBSET D : F[s] = SumFrom(g, F, s)
  <2>1. \A x \in D : g[x] \in Int
    OBVIOUS
  <2> QED
    BY <2>1, PartialSums
<1>3. F = [s \in SUBSET D |-> SumFrom(g, F, s)]
  BY <1>2, Zenon
<1>4. F = [s \in SUBSET D |-> IF s = {} THEN 0
                               ELSE g[CHOOSE x \in s : TRUE] + F[s \ {CHOOSE x \in s : TRUE}]]
  BY <1>3, Zenon DEF SumFrom, OneOf
<1>5. iter = [s \in SUBSET D |-> IF s = {} THEN 0
                               ELSE g[CHOOSE x \in s : TRUE] + iter[s \ {CHOOSE x \in s : TRUE}]]
  BY <1>4, Zenon
<1> HIDE DEF iter
<1>6. \A s \in SUBSET D : iter[s] = SumFrom(g, iter, s)
  BY <1>5, Zenon DEF SumFrom, OneOf
<1> QED
  BY <1>1, <1>6, SumsAreNumbers

LEMMA SumIsNumber ==
  ASSUME NEW g, IsFiniteSet(DOMAIN g), \A x \in DOMAIN g : g[x] \in Int
  PROVE  SumOf(g) \in Int
<1>1. FoldFunction(+, 0, g) \in Int
  BY SumIs
<1> QED
  BY <1>1, Zenon DEF SumOf

\* The channels of a layout, and what each is opposite to.
LEMMA RangeOf ==
  /\ \A a, b, c : Range(<<a, b, c>>) = {a, b, c}
  /\ \A a, b, c, d : Range(<<a, b, c, d>>) = {a, b, c, d}
  /\ \A a, b, c, d, e : Range(<<a, b, c, d, e>>) = {a, b, c, d, e}
  /\ \A a, b, c, d, e, f : Range(<<a, b, c, d, e, f>>) = {a, b, c, d, e, f}
  /\ \A a, b, c, d, e, f, g : Range(<<a, b, c, d, e, f, g>>) = {a, b, c, d, e, f, g}
  /\ \A a, b, c, d, e, f, g, h : Range(<<a, b, c, d, e, f, g, h>>) = {a, b, c, d, e, f, g, h}
<1>1. \A a, b, c : Range(<<a, b, c>>) = {a, b, c}
  BY DEF Range
<1>2. \A a, b, c, d : Range(<<a, b, c, d>>) = {a, b, c, d}
  BY DEF Range
<1>3. \A a, b, c, d, e : Range(<<a, b, c, d, e>>) = {a, b, c, d, e}
  BY DEF Range
<1>4. \A a, b, c, d, e, f : Range(<<a, b, c, d, e, f>>) = {a, b, c, d, e, f}
  BY DEF Range
<1>5. \A a, b, c, d, e, f, g : Range(<<a, b, c, d, e, f, g>>) = {a, b, c, d, e, f, g}
  BY DEF Range
<1>6. \A a, b, c, d, e, f, g, h : Range(<<a, b, c, d, e, f, g, h>>) = {a, b, c, d, e, f, g, h}
  BY DEF Range
<1> QED
  BY <1>1, <1>2, <1>3, <1>4, <1>5, <1>6

\* Each speaker and the one across.
LEMMA MirrorIs ==
  /\ Mirror["FL"] = "FR" /\ Mirror["FR"] = "FL" /\ Mirror["BL"] = "BR" /\ Mirror["BR"] = "BL"
  /\ Mirror["SL"] = "SR" /\ Mirror["SR"] = "SL" /\ Mirror["FLC"] = "FRC" /\ Mirror["FRC"] = "FLC"
  /\ Mirror["FC"] = "FC" /\ Mirror["BC"] = "BC" /\ Mirror["LFE"] = "LFE"
BY DEF Mirror

StereoNames == {"FL", "FR", "FC", "LFE", "BL", "BR", "SL", "SR", "BC"}
ChannelNames == StereoNames \cup {"FLC", "FRC"}

\* A set of channels that prefers no side.
Sided(R) == R \subseteq ChannelNames /\ \A n \in R : Mirror[n] \in R

\* The layouts with a downmix have both sides of each pair.
LEMMA StereoSides ==
  ASSUME NEW layout \in DOWNMIX_LAYOUTS
  PROVE  Sided(Range(layout)) /\ Range(layout) \subseteq StereoNames
BY RangeOf, MirrorIs DEF Sided, ChannelNames, StereoNames, DOWNMIX_LAYOUTS

\* So have those that fold into 5.1.
LEMMA SurroundSides ==
  ASSUME NEW layout \in SURROUND_FOLD_LAYOUTS
  PROVE  Sided(Range(layout))
BY RangeOf, MirrorIs DEF Sided, ChannelNames, StereoNames, SURROUND_FOLD_LAYOUTS

\* The total of a matrix bounds each of its rows.
LEMMA LoudestRow ==
  ASSUME NEW rows, IsFiniteSet(DOMAIN rows), DOMAIN rows # {},
         \A out \in DOMAIN rows : SumOf(rows[out]) \in Int
  PROVE  \A out \in DOMAIN rows : SumOf(rows[out]) <= Matrix(rows).total
<1> DEFINE totals == {SumOf(rows[out]) : out \in DOMAIN rows}
           rank == [out \in DOMAIN rows |-> SumOf(rows[out])]
<1>1. PICK t \in DOMAIN rows : \A s \in DOMAIN rows : rank[s] <= rank[t]
  BY LargestRank
<1>2. \E x \in totals : \A s \in totals : s <= x
  BY <1>1
<1>3. Matrix(rows).total = CHOOSE x \in totals : \A s \in totals : s <= x
  BY DEF Matrix, Mix
<1>4. \A s \in totals : s <= Matrix(rows).total
  BY <1>2, <1>3, Zenon
<1> QED
  BY <1>4

\* What a channel gives one side its opposite gives the other.
LEMMA StereoGains ==
  ASSUME NEW name \in StereoNames
  PROVE  /\ DOWNMIX_GAINS[name][1] \in Nat /\ DOWNMIX_GAINS[name][2] \in Nat
         /\ DOWNMIX_GAINS[name][1] = DOWNMIX_GAINS[Mirror[name]][2]
         /\ DOWNMIX_GAINS[name][2] = DOWNMIX_GAINS[Mirror[name]][1]
         /\ name # "LFE" => DOWNMIX_GAINS[name][1] > 0 \/ DOWNMIX_GAINS[name][2] > 0
BY MirrorIs DEF StereoNames, DOWNMIX_GAINS, Unity, M3DB

\* A layout's channels are few.
LEMMA FewNames ==
  ASSUME NEW R, R \subseteq ChannelNames
  PROVE  IsFiniteSet(R)
<1> DEFINE S11 == {"FL"} \cup {"FR"} \cup {"FC"} \cup {"LFE"} \cup {"BL"} \cup {"BR"} \cup {"SL"} \cup {"SR"}
                  \cup {"BC"} \cup {"FLC"} \cup {"FRC"}
<1>1. \A x : IsFiniteSet({x})
  BY FS_Singleton
<1>2. IsFiniteSet(S11)
  BY <1>1, FS_Union, Zenon
<1>3. R \in SUBSET S11
  BY DEF ChannelNames, StereoNames
<1> HIDE DEF S11
<1> QED
  BY <1>2, <1>3, FS_Subset

GainOf(rows, out, name) == IF name \in DOMAIN rows[out] THEN rows[out][name] ELSE 0

\* A mix is fair whose rows are bounded, mirrored and leave nothing out.
LEMMA FairMix ==
  ASSUME NEW mix, NEW layout, NEW otherRow,
         \A out \in DOMAIN mix.rows : SumOf(mix.rows[out]) <= mix.total,
         \A out \in DOMAIN mix.rows, name \in Range(layout) :
            GainOf(mix.rows, out, name) = GainOf(mix.rows, otherRow[out], Mirror[name]),
         \A name \in Range(layout) \ {"LFE"} : \E any \in DOMAIN mix.rows : GainOf(mix.rows, any, name) > 0
  PROVE  Fair(mix, layout, otherRow)
BY Zenon DEF Fair, GainOf

\* A mix prefers no side and loses no channel.
LEMMA StereoFair ==
  ASSUME NEW channels, NEW layout
  PROVE  Fair(StereoMix(channels, layout), layout, <<2, 1>>)
<1> DEFINE R == Range(layout)
           rows == [side \in {1, 2} |-> [name \in R |-> DOWNMIX_GAINS[name][side]]]
           mix == StereoMix(channels, layout)
<1>1. CASE mix.rows = NoRows
  BY <1>1 DEF Fair, NoRows
<1>2. CASE layout \in DOWNMIX_LAYOUTS /\ mix = Matrix(rows)
  <2>1. Sided(R) /\ R \subseteq StereoNames /\ IsFiniteSet(R)
    BY <1>2, StereoSides, FewNames DEF ChannelNames
  <2>2. mix.rows = rows
    BY <1>2 DEF Matrix, Mix
  <2>3. \A out \in {1, 2} : SumOf(rows[out]) \in Int
    <3> SUFFICES ASSUME NEW out \in {1, 2}  PROVE SumOf(rows[out]) \in Int
      OBVIOUS
    <3>1. DOMAIN rows[out] = R /\ \A x \in R : rows[out][x] \in Int
      BY <2>1, StereoGains
    <3> QED
      BY <2>1, <3>1, SumIsNumber
  <2>4. IsFiniteSet(DOMAIN rows) /\ DOMAIN rows = {1, 2}
    <3>1. DOMAIN rows = {1} \cup {2} /\ DOMAIN rows = {1, 2}
      OBVIOUS
    <3>2. \A x : IsFiniteSet({x})
      BY FS_Singleton
    <3>3. IsFiniteSet({1} \cup {2})
      BY <3>2, FS_Union, Zenon
    <3> QED
      BY <3>1, <3>3, Zenon
  <2>5. \A out \in {1, 2} : SumOf(rows[out]) <= mix.total
    BY <1>2, <2>3, <2>4, LoudestRow
  <2>6. \A out \in {1, 2}, name \in R : /\ Mirror[name] \in R /\ name \in DOMAIN rows[out]
                                       /\ rows[out][name] = DOWNMIX_GAINS[name][out]
    BY <2>1 DEF Sided
  <2> HIDE DEF rows, mix, R
  <2>7. \A name \in R : /\ rows[1][name] = rows[2][Mirror[name]]
                        /\ rows[2][name] = rows[1][Mirror[name]]
                        /\ name # "LFE" => rows[1][name] > 0 \/ rows[2][name] > 0
    BY <2>1, <2>6, StereoGains
  <2>8. /\ DOMAIN rows = {1, 2} /\ DOMAIN rows[1] = R /\ DOMAIN rows[2] = R
        /\ <<2, 1>>[1] = 2 /\ <<2, 1>>[2] = 1
    BY <2>4 DEF rows
  <2>9. \A out \in {1, 2}, name \in R : /\ GainOf(rows, out, name) = rows[out][name]
                                       /\ Mirror[name] \in R
    BY <2>6, <2>8 DEF GainOf
  <2>10. \A out \in DOMAIN rows, name \in R :
           GainOf(rows, out, name) = GainOf(rows, <<2, 1>>[out], Mirror[name])
    <3>1. ASSUME NEW name \in R  PROVE GainOf(rows, 1, name) = GainOf(rows, 2, Mirror[name])
      BY <2>7, <2>9
    <3>2. ASSUME NEW name \in R  PROVE GainOf(rows, 2, name) = GainOf(rows, 1, Mirror[name])
      BY <2>7, <2>9
    <3> QED
      BY <2>8, <3>1, <3>2
  <2>11. \A name \in R \ {"LFE"} : \E any \in DOMAIN rows : GainOf(rows, any, name) > 0
    BY <2>7, <2>8, <2>9
  <2> QED
    BY <2>2, <2>5, <2>8, <2>10, <2>11, FairMix DEF R, mix
<1> QED
  BY <1>1, <1>2 DEF StereoMix, Mix

\* Where each speaker that 5.1 has not is folded.
LEMMA FoldsAre ==
  /\ \A name \in SURROUND_CHANNELS : FoldsInto(name) = {name}
  /\ FoldsInto("BL") = {"SL"} /\ FoldsInto("BR") = {"SR"} /\ FoldsInto("BC") = {"SL", "SR"}
  /\ FoldsInto("FLC") = {"FL", "FC"} /\ FoldsInto("FRC") = {"FR", "FC"}
<1>1. \A name \in SURROUND_CHANNELS : FoldsInto(name) = {name}
  BY DEF FoldsInto
<1>2. /\ "BL" \notin SURROUND_CHANNELS /\ "BR" \notin SURROUND_CHANNELS /\ "BC" \notin SURROUND_CHANNELS
      /\ "FLC" \notin SURROUND_CHANNELS /\ "FRC" \notin SURROUND_CHANNELS
  BY DEF SURROUND_CHANNELS
<1> QED
  BY <1>1, <1>2 DEF FoldsInto, SURROUND_FOLDS

\* The folds of a channel's opposite are the opposites of its own.
LEMMA FoldsMirrored ==
  ASSUME NEW name \in ChannelNames, NEW out \in SURROUND_CHANNELS
  PROVE  /\ Mirror[out] \in SURROUND_CHANNELS
         /\ out \in FoldsInto(name) <=> Mirror[out] \in FoldsInto(Mirror[name])
         /\ \E any \in SURROUND_CHANNELS : any \in FoldsInto(name)
BY MirrorIs, FoldsAre DEF ChannelNames, StereoNames, SURROUND_CHANNELS

\* A speaker is folded as loud as the one across.
LEMMA GainMirrored ==
  ASSUME NEW layout, Sided(Range(layout)), NEW name \in Range(layout)
  PROVE  FoldGain(name, layout) = FoldGain(Mirror[name], layout)
<1> DEFINE R == Range(layout)
           free(n) == \E into \in FoldsInto(n) : FoldsInto(n) = {into} /\ (into = n \/ into \notin R)
<1>1. /\ \A n \in SURROUND_CHANNELS : free(n)
      /\ free("BL") <=> "SL" \notin R
      /\ free("BR") <=> "SR" \notin R
      /\ ~ free("BC") /\ ~ free("FLC") /\ ~ free("FRC")
  BY FoldsAre DEF SURROUND_CHANNELS
<1>2. \A n : FoldGain(n, layout) = IF free(n) THEN Unity ELSE M3DB
  BY DEF FoldGain
<1>3. "SL" \in R <=> "SR" \in R
  BY MirrorIs DEF Sided
<1>4. name \in ChannelNames
  BY DEF Sided
<1> HIDE DEF free, R
<1>5. free(name) <=> free(Mirror[name])
  BY <1>1, <1>3, <1>4, MirrorIs DEF ChannelNames, StereoNames, SURROUND_CHANNELS
<1> QED
  BY <1>2, <1>5

\* So the 5.1 mix is fair.
LEMMA SurroundFair ==
  ASSUME NEW channels, NEW layout
  PROVE  Fair(SurroundMix(channels, layout), layout, [out \in SURROUND_CHANNELS |-> Mirror[out]])
<1> DEFINE R == Range(layout)
           rows == [out \in SURROUND_CHANNELS |->
                      [name \in {n \in R : out \in FoldsInto(n)} |-> FoldGain(name, layout)]]
           mix == SurroundMix(channels, layout)
           other == [out \in SURROUND_CHANNELS |-> Mirror[out]]
<1>1. CASE mix.rows = NoRows
  BY <1>1 DEF Fair, NoRows
<1>2. CASE layout \in SURROUND_FOLD_LAYOUTS /\ mix = Matrix(rows)
  <2>1. Sided(R) /\ R \subseteq ChannelNames /\ IsFiniteSet(R)
    BY <1>2, SurroundSides, FewNames DEF Sided
  <2>2. mix.rows = rows
    BY <1>2 DEF Matrix, Mix
  <2>3. \A name : FoldGain(name, layout) \in Int /\ FoldGain(name, layout) > 0
    BY DEF FoldGain, Unity, M3DB
  <2>4. \A out \in SURROUND_CHANNELS : SumOf(rows[out]) \in Int
    <3> SUFFICES ASSUME NEW out \in SURROUND_CHANNELS  PROVE SumOf(rows[out]) \in Int
      OBVIOUS
    <3>1. /\ DOMAIN rows[out] \in SUBSET R
          /\ \A x \in DOMAIN rows[out] : rows[out][x] = FoldGain(x, layout)
      OBVIOUS
    <3>2. IsFiniteSet(DOMAIN rows[out])
      BY <2>1, <3>1, FS_Subset
    <3>3. \A x \in DOMAIN rows[out] : rows[out][x] \in Int
      BY <2>3, <3>1
    <3> QED
      BY <3>2, <3>3, SumIsNumber
  <2>5. DOMAIN rows = SURROUND_CHANNELS /\ IsFiniteSet(SURROUND_CHANNELS) /\ SURROUND_CHANNELS # {}
    BY FewNames DEF SURROUND_CHANNELS, ChannelNames, StereoNames
  <2>6. \A out \in SURROUND_CHANNELS : SumOf(rows[out]) <= mix.total
    BY <1>2, <2>4, <2>5, LoudestRow
  <2>7. \A out \in SURROUND_CHANNELS, name \in R :
          GainOf(rows, out, name) = IF out \in FoldsInto(name) THEN FoldGain(name, layout) ELSE 0
    BY DEF GainOf
  <2>8. \A out \in SURROUND_CHANNELS : other[out] = Mirror[out]
    OBVIOUS
  <2> HIDE DEF rows, mix, other, R
  <2>9. ASSUME NEW out \in SURROUND_CHANNELS, NEW name \in R
        PROVE  GainOf(rows, out, name) = GainOf(rows, other[out], Mirror[name])
    <3>1. name \in ChannelNames /\ Mirror[name] \in R
      BY <2>1 DEF Sided
    <3>2. /\ Mirror[out] \in SURROUND_CHANNELS
          /\ out \in FoldsInto(name) <=> Mirror[out] \in FoldsInto(Mirror[name])
      BY <3>1, FoldsMirrored
    <3>3. FoldGain(name, layout) = FoldGain(Mirror[name], layout)
      BY <2>1, GainMirrored DEF R
    <3> QED
      BY <2>7, <2>8, <3>1, <3>2, <3>3
  <2>10. \A name \in R \ {"LFE"} : \E any \in DOMAIN rows : GainOf(rows, any, name) > 0
    <3>1. "FL" \in SURROUND_CHANNELS
      BY DEF SURROUND_CHANNELS
    <3> SUFFICES ASSUME NEW name \in R  PROVE \E any \in SURROUND_CHANNELS : GainOf(rows, any, name) > 0
      BY <2>5
    <3>2. PICK any \in SURROUND_CHANNELS : any \in FoldsInto(name)
      BY <2>1, <3>1, FoldsMirrored
    <3>3. GainOf(rows, any, name) = FoldGain(name, layout)
      BY <2>7, <3>2
    <3> QED
      BY <2>3, <3>3
  <2>11. \A out \in DOMAIN mix.rows : SumOf(mix.rows[out]) <= mix.total
    BY <2>2, <2>5, <2>6
  <2> QED
    BY <2>2, <2>5, <2>9, <2>10, <2>11, FairMix, Zenon DEF R, mix, other
<1> QED
  BY <1>1, <1>2 DEF SurroundMix, Mix

\* A matrix is used only for as many channels as the stream has.
LEMMA MixHeeds ==
  ASSUME NEW channels, NEW layout
  PROVE  /\ StereoMix(channels, layout).by = "matrix" => Len(layout) = channels
         /\ SurroundMix(channels, layout).by = "matrix" => Len(layout) = channels
<1>1. StereoMix(channels, layout).by = "matrix" => Len(layout) = channels
  BY DEF StereoMix, Mix
<1>2. SurroundMix(channels, layout).by = "matrix" => Len(layout) = channels
  BY DEF SurroundMix, Mix
<1> QED
  BY <1>1, <1>2

\* A level asked for is one number.
LEMMA OneTarget ==
  ASSUME NEW setting, NEW target, target = WithSettings({-240}, setting)
  PROVE  target = {} \/ \E t \in Int : target = {t}
<1>1. /\ target \in {{}, {setting[2]}, {-240}}
      /\ target = {setting[2]} => target = {} \/ target = {-240} \/ setting[2] \in STEREO_LOUDNESS_RANGE
  BY DEF WithSettings
<1> QED
  BY <1>1 DEF STEREO_LOUDNESS_RANGE

IsMeasure(m) == m.integrated \in Int /\ m.peak \in Int
IsTiming(a) ==
  /\ a = [base |-> a.base, start |-> a.start, frames |-> a.frames, duration |-> a.duration]
  /\ a.base \in Int /\ a.duration \in Int

\* What is lifted, and to which level.
LEMMA LiftsAre ==
  ASSUME NEW m, m.integrated \in Int, m.seconds \in Int, NEW makeup \in Int, NEW t \in Int
  PROVE  LET quiet == /\ m.seconds >= LIFT_MIN_SECONDS /\ m.integrated > SILENT
                      /\ m.integrated + makeup < t - LIFT_WITHIN
             lift == Least(t - (m.integrated + makeup), LIFT_MAX)
         IN /\ StereoLift({m}, makeup, {t}) = (IF quiet THEN {lift} ELSE {})
            /\ lift \in Int
            /\ LET level == m.integrated + makeup + lift
               IN level = t \/ (level < t /\ level = m.integrated + makeup + LIFT_MAX)
<1>1. {t} \X {m} = {<<t, m>>}
  OBVIOUS
<1>2. <<t, m>>[1] = t /\ <<t, m>>[2] = m
  OBVIOUS
<1>3. StereoLift({m}, makeup, {t}) =
        IF /\ m.seconds >= LIFT_MIN_SECONDS /\ m.integrated > SILENT
           /\ m.integrated + makeup < t - LIFT_WITHIN
        THEN {Least(t - (m.integrated + makeup), LIFT_MAX)} ELSE {}
  BY <1>1, <1>2 DEF StereoLift
<1> QED
  BY <1>3 DEF Least, LIFT_MAX

\* Nothing is lifted towards no target.
LEMMA NoLifts ==
  ASSUME NEW loudness, NEW makeup
  PROVE  StereoLift(loudness, makeup, {}) = {}
<1>1. {} \X loudness = {}
  OBVIOUS
<1> QED
  BY <1>1 DEF StereoLift

\* The second pass undoes what the first got wrong.
LEMMA AgainHelps ==
  ASSUME NEW pass, pass.ceiling \in Int, pass.makeup \in Int, NEW made, IsMeasure(made), NEW level \in Int,
         Over(made) \/ Off(made, level)
  PROVE  LET second == Again(pass, made, level)
             lower == second.ceiling - pass.ceiling
             more == second.makeup - pass.makeup
         IN /\ lower < 0 \/ more # 0
            /\ made.peak + lower < LIFT_TRUE_PEAK
            /\ made.integrated + more - level \in -LIFT_TOLERANCE .. LIFT_TOLERANCE
BY DEF IsMeasure, Again, Over, Off, LIFT_TRUE_PEAK, LIFT_TOLERANCE

\* What plays for what it replaces starts with it and is as long.
LEMMA TimingKept ==
  ASSUME NEW a, NEW b, IsTiming(a), IsTiming(b), SameTiming({a}, {b})
  PROVE  /\ b.start = a.start /\ b.frames = a.frames
         /\ 1000 * (b.duration - a.duration) \in -2 * a.base .. 2 * a.base
<1>1. /\ [a EXCEPT !.duration = b.duration] = b
      /\ 1000 * (a.duration - b.duration) \in -LIFT_TIMING_SLACK * a.base .. LIFT_TIMING_SLACK * a.base
  BY DEF SameTiming
<1>2. [a EXCEPT !.duration = b.duration].start = a.start /\ [a EXCEPT !.duration = b.duration].frames = a.frames
  BY DEF IsTiming
<1> QED
  BY <1>1, <1>2 DEF IsTiming, LIFT_TIMING_SLACK

\* The makeup is a whole number of units.
LEMMA MakeupIs ==
  ASSUME NEW probes, NEW p \in Int, NEW q \in Int, probes \subseteq {<<p, q>>}, NEW level \in Int
  PROVE  \A m \in LiftMakeup(probes, level) : m \in Int
<1> DEFINE line(x) == LIFT_PROBES[1] + ((level - x[1]) * (LIFT_PROBES[2] - LIFT_PROBES[1])) \div (x[2] - x[1])
<1>1. LIFT_PROBES[1] = 0 /\ LIFT_PROBES[2] = 40
  BY DEF LIFT_PROBES
<1>2. LiftMakeup(probes, level) =
        {Least(Most(line(x), 0), 2 * LIFT_PROBES[2]) :
           x \in {y \in probes : 10 * (y[2] - y[1]) >= LIFT_PROBES[2] - LIFT_PROBES[1]}}
  BY Zenon DEF LiftMakeup
<1>3. ASSUME NEW x \in probes, 10 * (x[2] - x[1]) >= LIFT_PROBES[2] - LIFT_PROBES[1]
      PROVE  Least(Most(line(x), 0), 2 * LIFT_PROBES[2]) \in Int
  <2>1. x = <<p, q>> /\ x[1] = p /\ x[2] = q
    OBVIOUS
  <2>2. q - p > 0
    BY <1>1, <1>3, <2>1
  <2>3. (level - p) * 40 \in Int
    OBVIOUS
  <2>4. ((level - p) * 40) \div (q - p) \in Int
    BY <2>2, <2>3
  <2>5. line(x) = 0 + ((level - p) * (40 - 0)) \div (q - p)
    BY <1>1, <2>1, Zenon
  <2>6. line(x) \in Int
    BY <2>4, <2>5
  <2> HIDE DEF line
  <2> QED
    BY <1>1, <2>6 DEF Least, Most
<1> HIDE DEF line
<1> QED
  BY <1>2, <1>3

IsRun(run) ==
  /\ run.loudness = {} \/ \E m : run.loudness = {m} /\ m.integrated \in Int /\ m.seconds \in Int
  /\ \A i \in {1, 2} : run.made[i] = {} \/ \E m : run.made[i] = {m} /\ IsMeasure(m)
  /\ \E a, b : /\ run.timing \in {<<{}, {b}>>, <<{a}, {b}>>}
               /\ IsTiming(a) /\ IsTiming(b)
  /\ \E p, q \in Int : run.probes \subseteq {<<p, q>>}

\* A lift is right for the run it is made of.
LEMMA LiftHolds ==
  ASSUME NEW run, IsRun(run), NEW makeup \in Int, NEW target, target = {} \/ \E t \in Int : target = {t}
  PROVE  RightlyLifted(LiftOne(run, makeup, target), run, makeup, target)
<1> DEFINE lifts == StereoLift(run.loudness, makeup, target)
           lift == CHOOSE l \in lifts : TRUE
           loudness == CHOOSE l \in run.loudness : TRUE
           before == loudness.integrated + makeup
           level == before + lift
           makeups == LiftMakeup(run.probes, level)
           pass == [ceiling |-> LIFT_CEILING, makeup |-> CHOOSE m \in makeups : TRUE]
           made == CHOOSE m \in run.made[1] : TRUE
           second == Again(pass, made, level)
           quiet == /\ loudness.seconds >= LIFT_MIN_SECONDS /\ loudness.integrated > SILENT
                    /\ \E t \in target : before < t - LIFT_WITHIN
           out == LiftOne(run, makeup, target)
           told(passes) == Lifted("lifted", level, passes)
           timed == SameTiming(run.timing[1], run.timing[2])
<1> SUFFICES RightlyLifted(out, run, makeup, target)
  OBVIOUS
<1>1. out = IF run.loudness = {} THEN SkippedLift
            ELSE IF lifts = {} THEN Lifted("kept", 0, <<>>)
            ELSE IF makeups = {} \/ run.made[1] = {} THEN SkippedLift
            ELSE IF ~ Over(made) /\ ~ Off(made, level) THEN IF timed THEN told(<<pass>>) ELSE SkippedLift
            ELSE IF run.made[2] = {} \/ \E m \in run.made[2] : Over(m) THEN SkippedLift
            ELSE IF timed THEN told(<<pass, second>>) ELSE SkippedLift
  BY Zenon DEF LiftOne
<1>2. ASSUME run.loudness # {}
      PROVE  /\ lifts = {} <=> ~ quiet
             /\ loudness.integrated \in Int
             /\ lifts # {} => /\ level \in Int
                              /\ \E t \in target : level = t \/ (level < t /\ level = before + LIFT_MAX)
  <2>1. PICK m : run.loudness = {m} /\ m.integrated \in Int /\ m.seconds \in Int
    BY <1>2 DEF IsRun
  <2>2. loudness = m
    BY <2>1
  <2>3. CASE target = {}
    BY <2>1, <2>2, <2>3, NoLifts
  <2>4. CASE target # {}
    <3>1. PICK t \in Int : target = {t}
      BY <2>4
    <3> DEFINE asked == Least(t - (m.integrated + makeup), LIFT_MAX)
               calls == /\ m.seconds >= LIFT_MIN_SECONDS /\ m.integrated > SILENT
                        /\ m.integrated + makeup < t - LIFT_WITHIN
               l == m.integrated + makeup + asked
    <3>2. /\ StereoLift({m}, makeup, {t}) = (IF calls THEN {asked} ELSE {})
          /\ asked \in Int
          /\ l = t \/ (l < t /\ l = m.integrated + makeup + LIFT_MAX)
      BY <2>1, LiftsAre
    <3>3. lifts = StereoLift({m}, makeup, {t})
      BY <2>1, <3>1
    <3>4. quiet <=> calls
      BY <2>2, <3>1
    <3>5. l \in Int
      BY <2>1, <3>2
    <3>6. before = m.integrated + makeup
      BY <2>2
    <3> HIDE DEF asked, calls, lifts, quiet
    <3>7. lifts # {} => lift = asked
      BY <3>2, <3>3
    <3> HIDE DEF lift, before, loudness
    <3> QED
      BY <2>1, <2>2, <3>1, <3>2, <3>3, <3>4, <3>5, <3>6, <3>7
  <2> QED
    BY <2>3, <2>4
<1>3. ASSUME run.loudness # {}, lifts # {}, makeups # {}
      PROVE  pass.ceiling \in Int /\ pass.makeup \in Int
  <2>1. PICK p, q \in Int : run.probes \subseteq {<<p, q>>}
    BY DEF IsRun
  <2>2. \A m \in makeups : m \in Int
    BY <1>2, <1>3, <2>1, MakeupIs
  <2> HIDE DEF makeups
  <2>3. (CHOOSE m \in makeups : TRUE) \in makeups
    BY <1>3
  <2> QED
    BY <2>2, <2>3 DEF LIFT_CEILING
<1>4. timed => \E a, b \in UNION Range(run.timing) :
        run.timing = <<{a}, {b}>> /\ b.start = a.start /\ b.frames = a.frames
        /\ 1000 * (b.duration - a.duration) \in -2 * a.base .. 2 * a.base
  <2>1. PICK a, b : run.timing \in {<<{}, {b}>>, <<{a}, {b}>>} /\ IsTiming(a) /\ IsTiming(b)
    BY DEF IsRun
  <2>2. CASE run.timing = <<{}, {b}>>
    BY <2>2 DEF SameTiming
  <2>3. CASE run.timing = <<{a}, {b}>>
    <3>1. a \in UNION Range(run.timing) /\ b \in UNION Range(run.timing)
      <4>1. run.timing[1] = {a} /\ run.timing[2] = {b} /\ DOMAIN run.timing = {1, 2}
        BY <2>3
      <4> QED
        BY <4>1 DEF Range
    <3>2. timed => SameTiming({a}, {b})
      BY <2>3
    <3>3. timed => /\ b.start = a.start /\ b.frames = a.frames
                   /\ 1000 * (b.duration - a.duration) \in -2 * a.base .. 2 * a.base
      BY <2>1, <3>2, TimingKept
    <3> DEFINE Plays(c, d) == /\ run.timing = <<{c}, {d}>> /\ d.start = c.start /\ d.frames = c.frames
                              /\ 1000 * (d.duration - c.duration) \in -2 * c.base .. 2 * c.base
    <3>4. timed => Plays(a, b)
      BY <2>3, <3>3
    <3> HIDE DEF Plays, timed
    <3>5. timed => \E c, d \in UNION Range(run.timing) : Plays(c, d)
      BY <3>1, <3>4, Zenon
    <3> QED
      BY <3>5 DEF Plays
  <2> QED
    BY <2>1, <2>2, <2>3
<1>5. \A i \in {1, 2} : run.made[i] # {} =>
        /\ (CHOOSE m \in run.made[i] : TRUE) \in run.made[i] /\ IsMeasure(CHOOSE m \in run.made[i] : TRUE)
  BY DEF IsRun
<1> DEFINE lower == out.passes[2].ceiling - out.passes[1].ceiling
           more == out.passes[2].makeup - out.passes[1].makeup
           last == CHOOSE m \in run.made[Len(out.passes)] : TRUE
           Claim ==
             /\ out.mark = "lifted" =>
                  /\ run.loudness # {} /\ quiet
                  /\ timed
                  /\ \E t \in target : out.level = t \/ (out.level < t /\ out.level = before + LIFT_MAX)
                  /\ run.made[Len(out.passes)] # {} /\ last.peak < LIFT_TRUE_PEAK
                  /\ Len(out.passes) = 1 => last.integrated - out.level \in -LIFT_TOLERANCE .. LIFT_TOLERANCE
                  /\ Len(out.passes) = 2 =>
                       /\ lower < 0 \/ more # 0
                       /\ made.peak + lower < LIFT_TRUE_PEAK
                       /\ made.integrated + more - out.level \in -LIFT_TOLERANCE .. LIFT_TOLERANCE
             /\ out.mark = "kept" => run.loudness # {} /\ ~ quiet
             /\ out.mark = "skipped" => run.loudness = {} \/ quiet
<1>6. \A passes : told(passes).mark = "lifted" /\ told(passes).level = level /\ told(passes).passes = passes
  BY DEF Lifted
<1>7. Claim => RightlyLifted(out, run, makeup, target)
  BY <1>4, Zenon DEF RightlyLifted
<1>8. CASE out = SkippedLift /\ (run.loudness = {} \/ lifts # {})
  <2>1. out.mark = "skipped"
    BY <1>8 DEF SkippedLift, Lifted
  <2>2. run.loudness = {} \/ quiet
    BY <1>2, <1>8
  <2> HIDE DEF out, quiet
  <2> QED
    BY <1>7, <2>1, <2>2
<1>9. CASE run.loudness # {} /\ lifts = {}
  <2>1. out.mark = "kept"
    BY <1>1, <1>9 DEF Lifted
  <2>2. ~ quiet
    BY <1>2, <1>9
  <2> HIDE DEF out, quiet
  <2> QED
    BY <1>7, <1>9, <2>1, <2>2
<1>10. CASE /\ run.loudness # {} /\ lifts # {} /\ makeups # {} /\ run.made[1] # {} /\ timed
            /\ ~ Over(made) /\ ~ Off(made, level)
  <2>1. out = told(<<pass>>)
    BY <1>1, <1>10
  <2>2. out.mark = "lifted" /\ out.level = level /\ out.passes = <<pass>>
    BY <1>6, <2>1
  <2>3. Len(out.passes) = 1
    BY <2>2
  <2>4. quiet /\ \E t \in target : level = t \/ (level < t /\ level = before + LIFT_MAX)
    BY <1>2, <1>10
  <2>5. last = made
    BY <2>3
  <2>6. made.peak < LIFT_TRUE_PEAK /\ made.integrated - level \in -LIFT_TOLERANCE .. LIFT_TOLERANCE
    <3>1. IsMeasure(made)
      BY <1>5, <1>10
    <3> HIDE DEF made, level
    <3> QED
      BY <1>10, <3>1 DEF Over, Off, IsMeasure, LIFT_TRUE_PEAK
  <2> HIDE DEF out, quiet, timed, level, before, made, last, lifts, makeups, pass
  <2>7. Claim
    BY <1>10, <2>2, <2>3, <2>4, <2>5, <2>6
  <2> QED
    BY <1>7, <2>7
<1>11. CASE /\ run.loudness # {} /\ lifts # {} /\ makeups # {} /\ run.made[1] # {} /\ timed
            /\ Over(made) \/ Off(made, level)
            /\ run.made[2] # {} /\ \A m \in run.made[2] : ~ Over(m)
  <2>1. out = told(<<pass, second>>)
    BY <1>1, <1>11
  <2>2. out.mark = "lifted" /\ out.level = level /\ out.passes = <<pass, second>>
    BY <1>6, <2>1
  <2>3. Len(out.passes) = 2 /\ out.passes[1] = pass /\ out.passes[2] = second
    BY <2>2
  <2>4. quiet /\ level \in Int /\ \E t \in target : level = t \/ (level < t /\ level = before + LIFT_MAX)
    BY <1>2, <1>11
  <2>5. last \in run.made[2] /\ IsMeasure(last) /\ IsMeasure(made)
    BY <1>5, <1>11, <2>3
  <2>6. last.peak < LIFT_TRUE_PEAK
    <3> HIDE DEF last
    <3> QED
      BY <1>11, <2>5 DEF Over, IsMeasure, LIFT_TRUE_PEAK
  <2>7. /\ lower < 0 \/ more # 0
        /\ made.peak + lower < LIFT_TRUE_PEAK
        /\ made.integrated + more - level \in -LIFT_TOLERANCE .. LIFT_TOLERANCE
    <3>1. pass.ceiling \in Int /\ pass.makeup \in Int
      BY <1>3, <1>11
    <3>2. LET s == Again(pass, made, level)
          IN /\ s.ceiling - pass.ceiling < 0 \/ s.makeup - pass.makeup # 0
             /\ made.peak + (s.ceiling - pass.ceiling) < LIFT_TRUE_PEAK
             /\ made.integrated + (s.makeup - pass.makeup) - level \in -LIFT_TOLERANCE .. LIFT_TOLERANCE
      <4> HIDE DEF pass, made, level
      <4> QED
        BY <1>11, <2>4, <2>5, <3>1, AgainHelps
    <3> QED
      BY <2>3, <3>2
  <2> HIDE DEF out, quiet, timed, level, before, made, last, lifts, makeups, pass, second, lower, more
  <2>8. Claim
    BY <1>11, <2>2, <2>3, <2>4, <2>5, <2>6, <2>7
  <2> QED
    BY <1>7, <2>8
<1> HIDE DEF lifts, makeups, made, level, timed, told, out
<1> QED
  BY <1>1, <1>8, <1>9, <1>10, <1>11

\* Only these take the jobs of mixes and lifts.
LEMMA OtherMixes ==
  ASSUME Next, ~ MixAudio, ~ LiftMix
  PROVE  job'.kind \notin {"mix", "lift"}
BY PlanKinds, ReadingKinds, WritingKinds DEF Next, Reading

\* The job of a lift.
LEMMA LiftJob ==
  ASSUME LiftMix
  PROVE  LevelsHold'
<1>1. PICK target \in Targets, loudness \in Loudnesses, makeup \in {0, 60}, timing \in Timings, flat \in BOOLEAN :
        LiftIt(target, loudness, makeup, timing, flat)
  BY Zenon DEF LiftMix
<1> DEFINE lifts == StereoLift(loudness, makeup, target)
           level == (CHOOSE l \in loudness : TRUE).integrated + makeup + (CHOOSE l \in lifts : TRUE)
           passes == IF lifts = {} THEN {{}} ELSE Passes(level)
           probes == IF lifts = {} THEN {} ELSE {<<level - 10, level + (IF flat THEN -8 ELSE 20)>>}
           Run(first, second) ==
             [loudness |-> loudness, probes |-> probes, made |-> <<first, second>>, timing |-> timing]
<1>2. PICK first \in passes, second \in passes :
        job' = [kind |-> "lift", target |-> target, run |-> Run(first, second), makeup |-> makeup,
                out |-> LiftOne(Run(first, second), makeup, target)]
  BY <1>1, Zenon DEF LiftIt
<1>3. target = {} \/ \E t \in Int : target = {t}
  <2>1. PICK setting : target = WithSettings({-240}, setting)
    BY Zenon DEF Targets
  <2> QED
    BY <2>1, OneTarget
<1>4. loudness = {} \/ \E m : loudness = {m} /\ m.integrated \in Int /\ m.seconds \in Int
  <2> SUFFICES ASSUME loudness # {}
               PROVE  \E m : loudness = {m} /\ m.integrated \in Int /\ m.seconds \in Int
    OBVIOUS
  <2>1. PICK l \in Levels, s \in {2, 3} : loudness = {[integrated |-> - l, seconds |-> s]}
    BY DEF Loudnesses
  <2> DEFINE m == [integrated |-> - l, seconds |-> s]
  <2>2. l \in Nat
    BY ReadingsAssumption
  <2>3. m.integrated \in Int /\ m.seconds \in Int
    BY <2>2
  <2> HIDE DEF m
  <2> QED
    BY <2>1, <2>3 DEF m
<1>5. lifts # {} => level \in Int
  <2> SUFFICES ASSUME lifts # {}  PROVE level \in Int
    OBVIOUS
  <2>1. PICK t \in Int : target = {t}
    BY <1>3, NoLifts
  <2>2. loudness # {}
    <3>1. loudness = {} => target \X loudness = {}
      OBVIOUS
    <3> QED
      BY <3>1 DEF StereoLift
  <2>3. PICK m : loudness = {m} /\ m.integrated \in Int /\ m.seconds \in Int
    BY <1>4, <2>2
  <2>4. makeup \in Int
    OBVIOUS
  <2> DEFINE asked == Least(t - (m.integrated + makeup), LIFT_MAX)
             calls == /\ m.seconds >= LIFT_MIN_SECONDS /\ m.integrated > SILENT
                      /\ m.integrated + makeup < t - LIFT_WITHIN
  <2>5. lifts = (IF calls THEN {asked} ELSE {}) /\ asked \in Int
    BY <2>1, <2>3, <2>4, LiftsAre
  <2> HIDE DEF asked, calls, lifts
  <2>6. (CHOOSE l \in lifts : TRUE) = asked
    BY <2>5
  <2> QED
    BY <2>3, <2>4, <2>5, <2>6
<1>6. \A pass \in passes : pass = {} \/ \E m : pass = {m} /\ IsMeasure(m)
  <2> SUFFICES ASSUME NEW pass \in passes, pass # {}  PROVE \E m : pass = {m} /\ IsMeasure(m)
    OBVIOUS
  <2>1. lifts # {} /\ pass \in Passes(level)
    OBVIOUS
  <2>2. level \in Int
    BY <1>5, <2>1
  <2> HIDE DEF level, passes
  <2>3. PICK off \in {-6, -5, 0, 6}, peak \in {-21, -20, -5} : pass = {[integrated |-> level + off, peak |-> peak]}
    BY <2>1 DEF Passes
  <2>4. IsMeasure([integrated |-> level + off, peak |-> peak])
    BY <2>2 DEF IsMeasure
  <2> QED
    BY <2>3, <2>4, Zenon
<1>7. \E p, q \in Int : probes \subseteq {<<p, q>>}
  <2>1. CASE lifts = {}
    <3>1. probes \subseteq {<<0, 0>>} /\ 0 \in Int
      BY <2>1
    <3> QED
      BY <3>1, Zenon
  <2>2. CASE lifts # {}
    <3> DEFINE p == level - 10
               q == level + (IF flat THEN -8 ELSE 20)
    <3>1. p \in Int /\ q \in Int
      BY <1>5, <2>2
    <3>2. probes = {<<p, q>>}
      BY <2>2
    <3> HIDE DEF p, q, probes
    <3> QED
      BY <3>1, <3>2
  <2> QED
    BY <2>1, <2>2
<1>8. \E a, b : /\ timing \in {<<{}, {b}>>, <<{a}, {b}>>}
                /\ IsTiming(a) /\ IsTiming(b)
  <2> DEFINE timed(start, duration) == [base |-> 1000, start |-> start, frames |-> 8, duration |-> duration]
  <2>1. PICK lifted \in {{}, {timed(0, 168)}, {timed(0, 173)}, {timed(1, 170)}} : timing = <<lifted, {timed(0, 170)}>>
    BY DEF Timings
  <2>2. \A start, duration \in Int : IsTiming(timed(start, duration))
    BY DEF IsTiming
  <2>3. /\ IsTiming(timed(0, 168)) /\ IsTiming(timed(0, 173)) /\ IsTiming(timed(1, 170)) /\ IsTiming(timed(0, 170))
    BY <2>2
  <2> HIDE DEF timed
  <2> QED
    BY <2>1, <2>3
<1> HIDE DEF lifts, level, passes, probes
<1>9. IsRun(Run(first, second))
  <2> DEFINE r == Run(first, second)
  <2>1. r.loudness = loudness /\ r.probes = probes /\ r.made[1] = first /\ r.made[2] = second /\ r.timing = timing
    OBVIOUS
  <2> HIDE DEF r
  <2>2. \A i \in {1, 2} : r.made[i] = {} \/ \E m : r.made[i] = {m} /\ IsMeasure(m)
    BY <1>6, <2>1
  <2>3. r.loudness = {} \/ \E m : r.loudness = {m} /\ m.integrated \in Int /\ m.seconds \in Int
    BY <1>4, <2>1
  <2>4. \E a, b : /\ r.timing \in {<<{}, {b}>>, <<{a}, {b}>>}
                  /\ IsTiming(a) /\ IsTiming(b)
    BY <1>8, <2>1
  <2>5. \E p, q \in Int : r.probes \subseteq {<<p, q>>}
    BY <1>7, <2>1
  <2>6. IsRun(r)
    BY <2>2, <2>3, <2>4, <2>5 DEF IsRun
  <2> QED
    BY <2>6 DEF r
<1> HIDE DEF Run
<1>10. RightlyLifted(LiftOne(Run(first, second), makeup, target), Run(first, second), makeup, target)
  BY <1>3, <1>9, LiftHolds
<1> QED
  BY <1>2, <1>10 DEF LevelsHold

\* The job of a mix.
LEMMA MixJob ==
  ASSUME MixAudio
  PROVE  LevelsHold'
<1>1. PICK channels, layout :
        job' = [kind |-> "mix", channels |-> channels, layout |-> layout,
                stereo |-> StereoMix(channels, layout), surround |-> SurroundMix(channels, layout)]
  BY Zenon DEF MixAudio
<1>2. /\ job'.kind = "mix" /\ job'.channels = channels /\ job'.layout = layout
      /\ job'.stereo = StereoMix(channels, layout) /\ job'.surround = SurroundMix(channels, layout)
  BY <1>1
<1> QED
  BY <1>2, StereoFair, SurroundFair, MixHeeds DEF LevelsHold

\* THEOREM: a rendition is as loud as its track was meant: no mix loses a
\* channel or prefers a side, and one is lifted only to the level asked for,
\* measured under the true peak and timed as what it replaces
\* (_stereo_chain, _surround_filter, _lift_one, _stereo_lift).
THEOREM LevelsAlwaysHold == Spec => []LevelsHold
<1>1. Init => LevelsHold
  BY DEF Init, LevelsHold
<1>2. LevelsHold /\ [Next]_job => LevelsHold'
  <2> SUFFICES ASSUME LevelsHold, [Next]_job  PROVE LevelsHold'
    OBVIOUS
  <2>1. CASE UNCHANGED job
    BY <2>1 DEF LevelsHold
  <2>2. CASE MixAudio
    BY <2>2, MixJob
  <2>3. CASE LiftMix
    BY <2>3, LiftJob
  <2>4. CASE job'.kind \notin {"mix", "lift"}
    BY <2>4 DEF LevelsHold
  <2> QED
    BY <2>1, <2>2, <2>3, <2>4, OtherMixes
<1> QED
  BY <1>1, <1>2, PTL DEF Spec

\* A value a field may be read from: none, or a fraction over no less than 0.
IsValue(q) == q = <<>> \/ \E a \in Int, b \in Nat : q = <<a, b>>

\* A field holds the nearest number of units, or none.
LEMMA UnitsNear ==
  ASSUME NEW q, IsValue(q), NEW units \in Nat, NEW most \in Nat, NEW n
  PROVE  n \in UnitsOf(q, units, most) <=> n \in 0 .. most /\ Near(n, q, units)
<1>1. CASE q = <<>>
  BY <1>1 DEF UnitsOf, Ratio, Near
<1>2. CASE \E a \in Int, b \in Nat : q = <<a, b>>
  <2>1. PICK a \in Int, b \in Nat : q = <<a, b>>
    BY <1>2
  <2>2. q # <<>> /\ q[1] = a /\ q[2] = b
    BY <2>1
  <2>3. CASE b = 0 \/ a < 0
    <3>1. Ratio(q) = {}
      BY <2>1, <2>2, <2>3 DEF Ratio
    <3> QED
      BY <2>1, <2>2, <2>3, <3>1 DEF UnitsOf, Near
  <2>4. CASE b > 0 /\ a >= 0
    <3> DEFINE top == 2 * a * units + b
               r == top \div (2 * b)
    <3>1. Ratio(q) = {q}
      BY <2>1, <2>2, <2>4 DEF Ratio
    <3>2. UnitsOf(q, units, most) = {x \in {r} : x \in 0 .. most}
      BY <2>2, <3>1 DEF UnitsOf
    <3>3. top \in Nat /\ 2 * b \in Nat \ {0}
      BY <2>4
    <3>4. r \in Int /\ (2 * b) * r <= top /\ top < (2 * b) * (r + 1)
      BY <3>3
    <3>5. \A x \in Int : x = r <=> (2 * b) * x <= top /\ top < (2 * b) * (x + 1)
      BY <3>3, <3>4
    <3>6. \A x \in Int : /\ (2 * b) * x <= top <=> (2 * x - 1) * b <= 2 * a * units
                         /\ top < (2 * b) * (x + 1) <=> 2 * a * units <= (2 * x + 1) * b - 1
      BY <3>3
    <3> HIDE DEF r
    <3>7. n \in 0 .. most => (Near(n, q, units) <=> n = r)
      BY <2>2, <2>4, <3>5, <3>6 DEF Near
    <3> QED
      BY <3>2, <3>7
  <2> QED
    BY <2>1, <2>3, <2>4
<1> QED
  BY <1>1, <1>2 DEF IsValue

\* A side data entry: of a mastering display or a content light level.
IsEntry(e) ==
  \/ e.kind = "mdcv" /\ IsValue(e.chroma) /\ IsValue(e.luma)
  \/ e.kind = "clli" /\ \E a, b \in Int : e.light = <<a, b>>

\* What is read of an entry is what it writes in fields that hold it.
LEMMA EntrySays ==
  ASSUME NEW e, IsEntry(e), NEW kind \in Kinds
  PROVE  \A v : v \in SaidBy(e)[kind] <=> e.kind = kind /\ v \in Fields(kind) /\ Writes(e, v)
<1> DEFINE said == SaidBy(e)[kind]
<1>1. CASE e.kind # kind
  BY <1>1 DEF SaidBy, Kinds
<1>2. CASE kind = "mdcv" /\ e.kind = "mdcv"
  <2> DEFINE C == UnitsOf(e.chroma, CHROMA_UNITS, MaxChroma)
             L == UnitsOf(e.luma, LUMA_UNITS, MaxLuma)
  <2>1. SaidBy(e)["mdcv"] = {<<c, l>> : c \in C, l \in L}
    BY <1>2 DEF SaidBy, Mastering
  <2>2. IsValue(e.chroma) /\ IsValue(e.luma)
    BY <1>2 DEF IsEntry
  <2>3. /\ CHROMA_UNITS \in Nat /\ LUMA_UNITS \in Nat /\ MaxChroma \in Nat /\ MaxLuma \in Nat
    BY PlansAssumption
  <2>4. \A n : n \in C <=> n \in 0 .. MaxChroma /\ Near(n, e.chroma, CHROMA_UNITS)
    BY <2>2, <2>3, UnitsNear
  <2>5. \A n : n \in L <=> n \in 0 .. MaxLuma /\ Near(n, e.luma, LUMA_UNITS)
    BY <2>2, <2>3, UnitsNear
  <2> HIDE DEF C, L
  <2>6. \A v : v \in SaidBy(e)["mdcv"] <=> v \in C \X L
    BY <2>1
  <2>7. \A v : v \in C \X L <=> /\ v \in (0 .. MaxChroma) \X (0 .. MaxLuma)
                                /\ Near(v[1], e.chroma, CHROMA_UNITS) /\ Near(v[2], e.luma, LUMA_UNITS)
    BY <2>4, <2>5
  <2>8. \A v : v \in Fields("mdcv") <=> v \in (0 .. MaxChroma) \X (0 .. MaxLuma)
    BY DEF Fields
  <2>9. \A v : Writes(e, v) <=> Near(v[1], e.chroma, CHROMA_UNITS) /\ Near(v[2], e.luma, LUMA_UNITS)
    BY <1>2 DEF Writes
  <2> QED
    BY <1>2, <2>6, <2>7, <2>8, <2>9
<1>3. CASE kind = "clli" /\ e.kind = "clli"
  <2>1. PICK a, b \in Int : e.light = <<a, b>>
    BY <1>3 DEF IsEntry
  <2>2. SaidBy(e)["clli"] = LightLevel(e)
    BY <1>3 DEF SaidBy
  <2>3. DOMAIN e.light = {1, 2} /\ e.light[1] = a /\ e.light[2] = b
    BY <2>1
  <2>4. \A v : v \in LightLevel(e) <=> v = e.light /\ \A k \in DOMAIN v : v[k] \in 0 .. MaxLight
    BY DEF LightLevel
  <2>5. (\A k \in DOMAIN e.light : e.light[k] \in 0 .. MaxLight) <=> e.light \in (0 .. MaxLight) \X (0 .. MaxLight)
    BY <2>1, <2>3
  <2>6. \A v : v \in Fields("clli") <=> v \in (0 .. MaxLight) \X (0 .. MaxLight)
    BY DEF Fields
  <2>7. \A v : Writes(e, v) <=> v = e.light
    BY <1>3 DEF Writes
  <2> QED
    BY <1>3, <2>2, <2>4, <2>5, <2>6, <2>7
<1> QED
  BY <1>1, <1>2, <1>3 DEF Kinds

\* The first of a kind that is said.
SaidFirst(said, kind) ==
  LET some == {i \in DOMAIN said : said[i][kind] # {}}
  IN IF some = {} THEN {} ELSE said[CHOOSE i \in some : \A j \in some : i <= j][kind]

\* The first that is said, as FirstSaid takes it.
LEMMA FirstIs ==
  ASSUME NEW said, NEW kind \in Kinds
  PROVE  FirstSaid(said)[kind] = SaidFirst(said, kind)
<1>1. FirstSaid(said) = [k \in Kinds |-> SaidFirst(said, k)]
  BY Zenon DEF FirstSaid, SaidFirst
<1> QED
  BY <1>1

\* A list of entries, of any length.
IsSideData(list) == \E n \in Nat : DOMAIN list = 1 .. n /\ \A i \in 1 .. n : IsEntry(list[i])

\* What is read of a list is what the first entry that says it writes.
LEMMA ListSays ==
  ASSUME NEW list, IsSideData(list), NEW kind \in Kinds
  PROVE  LET found == FromSideData(list)[kind]
             saying == Saying(list, kind)
         IN /\ found = {} <=> saying = {}
            /\ saying # {} => Min(saying) \in saying
            /\ \A v \in found : v \in Fields(kind) /\ Writes(list[Min(saying)], v)
<1> DEFINE said == [i \in DOMAIN list |-> SaidBy(list[i])]
           some == {i \in DOMAIN list : said[i][kind] # {}}
           saying == Saying(list, kind)
           found == FromSideData(list)[kind]
<1>1. PICK n \in Nat : DOMAIN list = 1 .. n /\ \A i \in 1 .. n : IsEntry(list[i])
  BY DEF IsSideData
<1>2. \A i \in DOMAIN list : \A v :
        v \in said[i][kind] <=> list[i].kind = kind /\ v \in Fields(kind) /\ Writes(list[i], v)
  BY <1>1, EntrySays
<1>3. some = saying
  <2> HIDE DEF said
  <2> QED
    BY <1>2 DEF Saying
<1>4. found = IF some = {} THEN {} ELSE said[CHOOSE i \in some : \A j \in some : i <= j][kind]
  BY FirstIs, Zenon DEF FromSideData, SaidFirst
<1>5. saying \subseteq Nat
  BY <1>1 DEF Saying
<1>6. saying # {} => Min(saying) \in saying /\ \A y \in saying : Min(saying) <= y
  BY <1>5, LeastNumber, Zenon DEF Min
<1>7. saying # {} => found = said[Min(saying)][kind]
  BY <1>3, <1>4, Zenon DEF Min
<1>8. saying = {} => found = {}
  BY <1>3, <1>4, Zenon
<1>9. saying # {} => found # {}
  BY <1>3, <1>6, <1>7, Zenon
<1>10. saying \subseteq DOMAIN list
  BY DEF Saying
<1> HIDE DEF saying, said, found
<1>11. \A v \in found : v \in Fields(kind) /\ Writes(list[Min(saying)], v)
  BY <1>2, <1>6, <1>7, <1>8, <1>10
<1>12. /\ found = {} <=> saying = {}
       /\ saying # {} => Min(saying) \in saying
       /\ \A v \in found : v \in Fields(kind) /\ Writes(list[Min(saying)], v)
  BY <1>6, <1>8, <1>9, <1>11
<1> QED
  BY <1>12, Zenon DEF saying, found

\* One frame at most: its entries are what there is of frames.
LEMMA FramesSay ==
  ASSUME NEW frames, frames = <<>> \/ \E f : frames = <<f>> /\ IsSideData(f)
  PROVE  /\ IsSideData(FlattenSeq(frames))
         /\ \A kind \in Kinds : FirstFrames(frames)[kind] = FromSideData(FlattenSeq(frames))[kind]
         /\ \A f : frames = <<f>> => FlattenSeq(frames) = f
<1> DEFINE said == [i \in DOMAIN frames |-> FromSideData(frames[i])]
<1>1. \A kind \in Kinds : FirstFrames(frames)[kind] = SaidFirst(said, kind)
  BY FirstIs, Zenon DEF FirstFrames
<1>2. CASE frames = <<>>
  <2>1. FlattenSeq(frames) = <<>>
    BY <1>2 DEF FlattenSeq
  <2>2. IsSideData(<<>>)
    <3>1. 0 \in Nat /\ DOMAIN << >> = 1 .. 0 /\ \A i \in 1 .. 0 : IsEntry(<< >>[i])
      OBVIOUS
    <3> QED
      BY <3>1 DEF IsSideData
  <2>3. \A kind \in Kinds : FromSideData(<<>>)[kind] = {}
    <3> SUFFICES ASSUME NEW kind \in Kinds  PROVE FromSideData(<<>>)[kind] = {}
      OBVIOUS
    <3>1. FromSideData(<<>>)[kind] = SaidFirst([i \in DOMAIN << >> |-> SaidBy(<< >>[i])], kind)
      BY FirstIs, Zenon DEF FromSideData
    <3> DEFINE none == [i \in DOMAIN << >> |-> SaidBy(<< >>[i])]
    <3>2. {i \in DOMAIN none : none[i][kind] # {}} = {}
      OBVIOUS
    <3> QED
      BY <3>1, <3>2, Zenon DEF SaidFirst
  <2>4. \A kind \in Kinds : SaidFirst(said, kind) = {}
    BY <1>2 DEF SaidFirst
  <2>5. \A f : frames # <<f>>
    BY <1>2
  <2> QED
    BY <1>1, <2>1, <2>2, <2>3, <2>4, <2>5
<1>3. CASE \E f : frames = <<f>> /\ IsSideData(f)
  <2>1. PICK f : frames = <<f>> /\ IsSideData(f)
    BY <1>3
  <2>2. Len(frames) = 1 /\ DOMAIN frames = {1} /\ frames[1] = f
    BY <2>1
  <2>3. FlattenSeq(frames) = f
    <3> DEFINE flat == CHOOSE g : g = [i \in 1 .. Len(frames) |-> IF i = 1 THEN frames[i] ELSE g[i - 1] \o frames[i]]
               one == [i \in 1 .. Len(frames) |-> frames[i]]
    <3>1. Len(frames) # 0
      BY <2>2
    <3>2. FlattenSeq(frames) = flat[Len(frames)]
      BY <3>1, Zenon DEF FlattenSeq
    <3>3. one = [i \in 1 .. Len(frames) |-> IF i = 1 THEN frames[i] ELSE one[i - 1] \o frames[i]]
      BY <2>2
    <3> HIDE DEF one
    <3>4. flat = [i \in 1 .. Len(frames) |-> IF i = 1 THEN frames[i] ELSE flat[i - 1] \o frames[i]]
      BY <3>3, Zenon
    <3> HIDE DEF flat
    <3>5. flat[1] = frames[1]
      BY <2>2, <3>4
    <3> QED
      BY <2>2, <3>5, <3>2
  <2>4. DOMAIN said = {1} /\ said[1] = FromSideData(f)
    BY <2>2
  <2> HIDE DEF said
  <2>5. \A kind \in Kinds : SaidFirst(said, kind) = FromSideData(f)[kind]
    <3> SUFFICES ASSUME NEW kind \in Kinds  PROVE SaidFirst(said, kind) = FromSideData(f)[kind]
      OBVIOUS
    <3>1. CASE FromSideData(f)[kind] = {}
      <4>1. {i \in DOMAIN said : said[i][kind] # {}} = {}
        BY <2>4, <3>1
      <4> QED
        BY <3>1, <4>1 DEF SaidFirst
    <3>2. CASE FromSideData(f)[kind] # {}
      <4>1. {i \in DOMAIN said : said[i][kind] # {}} = {1}
        BY <2>4, <3>2
      <4>2. (CHOOSE i \in {1} : \A j \in {1} : i <= j) = 1
        OBVIOUS
      <4> QED
        BY <2>4, <4>1, <4>2 DEF SaidFirst
    <3> QED
      BY <3>1, <3>2
  <2>6. \A g : frames = <<g>> => g = f
    BY <2>1
  <2> QED
    BY <1>1, <2>1, <2>3, <2>5, <2>6
<1> QED
  BY <1>2, <1>3

\* What the stream says of a kind comes before what the frames say.
LEMMA OriginalSays ==
  ASSUME NEW stream, NEW frames, NEW kind \in Kinds
  PROVE  OfOriginal(stream, frames)[kind] =
           IF FromSideData(stream)[kind] # {} THEN FromSideData(stream)[kind] ELSE FirstFrames(frames)[kind]
<1> DEFINE S == FromSideData(stream)
           F == FirstFrames(frames)
           both == <<S, F>>
           some == {i \in DOMAIN both : both[i][kind] # {}}
<1>1. OfOriginal(stream, frames)[kind] = SaidFirst(both, kind)
  BY FirstIs, Zenon DEF OfOriginal
<1>2. DOMAIN both = {1, 2} /\ both[1] = S /\ both[2] = F
  OBVIOUS
<1>3. SaidFirst(both, kind) = IF some = {} THEN {} ELSE both[CHOOSE i \in some : \A j \in some : i <= j][kind]
  BY Zenon DEF SaidFirst
<1> HIDE DEF both, S, F
<1>4. CASE S[kind] # {}
  <2>1. 1 \in some /\ \A j \in some : 1 <= j
    BY <1>2, <1>4
  <2>2. \A i \in some : (\A j \in some : i <= j) => i = 1
    BY <1>2, <2>1
  <2>3. (CHOOSE i \in some : \A j \in some : i <= j) = 1
    <3> HIDE DEF some
    <3> QED
      BY <2>1, <2>2
  <2> QED
    BY <1>1, <1>2, <1>3, <1>4, <2>1, <2>3 DEF S
<1>5. CASE S[kind] = {} /\ F[kind] # {}
  <2>1. some = {2}
    BY <1>2, <1>5
  <2>2. (CHOOSE i \in {2} : \A j \in {2} : i <= j) = 2
    OBVIOUS
  <2> QED
    BY <1>1, <1>2, <1>3, <1>5, <2>1, <2>2 DEF S, F
<1>6. CASE S[kind] = {} /\ F[kind] = {}
  <2>1. some = {}
    BY <1>2, <1>6
  <2> QED
    BY <1>1, <1>3, <1>6, <2>1 DEF S, F
<1> QED
  BY <1>4, <1>5, <1>6 DEF S, F

\* Each job of a read metadata is as the source says it.
LEMMA MetadataJob ==
  ASSUME ReadHdr10
  PROVE  MetadataAsSaid'
<1>1. PICK stream \in UpTo(2, SideDataEntries), frames \in UpTo(1, UpTo(1, SideDataEntries)) :
        job' = [kind |-> "metadata", stream |-> stream, frames |-> FlattenSeq(frames),
                found |-> OfOriginal(stream, frames)]
  BY Zenon DEF ReadHdr10
<1>2. \A e \in SideDataEntries : IsEntry(e)
  <2>1. \A q \in Rationals \cup {<<1, 0>>, <<1, 2>>, <<19, 6>>} : IsValue(q)
    <3>1. IsValue(<<>>)
      BY DEF IsValue
    <3>2. \A a \in Int, b \in Nat : IsValue(<<a, b>>)
      BY DEF IsValue
    <3>3. -1 \in Int
      OBVIOUS
    <3> QED
      BY <3>1, <3>2, <3>3 DEF Rationals
  <2>2. \A v \in {<<0, 1>>, <<1, -1>>, <<MaxLight + 1, 1>>} : \E a, b \in Int : v = <<a, b>>
    BY PlansAssumption
  <2>3. ASSUME NEW e \in SideDataEntries  PROVE IsEntry(e)
    <3>1. CASE \E c \in Rationals, l \in {<<1, 0>>, <<1, 2>>, <<19, 6>>} : e = SideData("mdcv", c, l, <<>>)
      <4>1. PICK c, l : e = SideData("mdcv", c, l, <<>>) /\ IsValue(c) /\ IsValue(l)
        BY <2>1, <3>1
      <4> QED
        BY <4>1 DEF IsEntry, SideData
    <3>2. CASE \E v \in {<<0, 1>>, <<1, -1>>, <<MaxLight + 1, 1>>} : e = SideData("clli", <<>>, <<>>, v)
      <4>1. PICK a \in Int, b \in Int : e = SideData("clli", <<>>, <<>>, <<a, b>>)
        BY <2>2, <3>2
      <4> QED
        BY <4>1 DEF IsEntry, SideData
    <3> QED
      BY <3>1, <3>2 DEF SideDataEntries
  <2> QED
    BY <2>3
<1>3. \A n \in Nat : \A list \in UpTo(n, SideDataEntries) : IsSideData(list)
  BY <1>2 DEF UpTo, IsSideData
<1>4. IsSideData(stream)
  BY <1>3
<1>5. frames = <<>> \/ \E f : frames = <<f>> /\ IsSideData(f)
  <2>1. PICK k \in 0 .. 1 : frames \in [1 .. k -> UpTo(1, SideDataEntries)]
    BY DEF UpTo
  <2>2. CASE k = 0
    BY <2>1, <2>2
  <2>3. CASE k = 1
    <3>1. frames = <<frames[1]>> /\ frames[1] \in UpTo(1, SideDataEntries)
      BY <2>1, <2>3
    <3> QED
      BY <1>3, <3>1
  <2> QED
    BY <2>1, <2>2, <2>3
<1> DEFINE all == FlattenSeq(frames)
           found == OfOriginal(stream, frames)
<1>6. IsSideData(all) /\ \A kind \in Kinds : FirstFrames(frames)[kind] = FromSideData(all)[kind]
  BY <1>5, FramesSay
<1>7. ASSUME NEW kind \in Kinds
      PROVE  /\ found[kind] = {} <=> Saying(stream, kind) = {} /\ Saying(all, kind) = {}
             /\ \A v \in found[kind] :
                  /\ v \in Fields(kind)
                  /\ IF Saying(stream, kind) # {} THEN Writes(stream[Min(Saying(stream, kind))], v)
                     ELSE Writes(all[Min(Saying(all, kind))], v)
  <2>1. found[kind] = IF FromSideData(stream)[kind] # {} THEN FromSideData(stream)[kind]
                      ELSE FromSideData(all)[kind]
    BY <1>6, OriginalSays
  <2>2. /\ FromSideData(stream)[kind] = {} <=> Saying(stream, kind) = {}
        /\ \A v \in FromSideData(stream)[kind] : v \in Fields(kind) /\ Writes(stream[Min(Saying(stream, kind))], v)
    BY <1>4, ListSays, Zenon
  <2>3. /\ FromSideData(all)[kind] = {} <=> Saying(all, kind) = {}
        /\ \A v \in FromSideData(all)[kind] : v \in Fields(kind) /\ Writes(all[Min(Saying(all, kind))], v)
    BY <1>6, ListSays, Zenon
  <2> HIDE DEF found, all
  <2> QED
    BY <2>1, <2>2, <2>3, Zenon
<1>8. job'.stream = stream /\ job'.frames = all /\ job'.found = found
  BY <1>1
<1> HIDE DEF all, found
<1> QED
  BY <1>7, <1>8, Zenon DEF MetadataAsSaid

\* An extradata's arrays: each of a kind of parameter sets, its units of one
\* or two bytes, of the base layer or another.
IsUnit(u) == \E l \in {0, 1}, s \in {1, 2} : u = [layer |-> l, size |-> s]
IsArrays(arrays) ==
  \A i \in DOMAIN arrays : /\ arrays[i].type \in ParameterSets
                           /\ \A k \in DOMAIN arrays[i].units : IsUnit(arrays[i].units[k])

CopyTold(x, dump, frame, copy, written) ==
  LET base(type) == \E i \in DOMAIN x.arrays : /\ x.arrays[i].type = type
                                               /\ [layer |-> 0, size |-> 2] \in Range(x.arrays[i].units)
      whole == ~ x.cut /\ \A type \in ParameterSets : base(type)
  IN /\ dump = "whole" /\ frame = ParameterSets /\ (x.form # "annexb" \/ whole) =>
          written = ParameterSets
     /\ x.form = "hvcC" /\ whole => copy = "straight" /\ written = ParameterSets
     /\ copy = "annexb" => x.form = "hvcC" /\ ~ whole

\* A copied stream's parameter sets reach the player wherever they can be read.
LEMMA CopyHolds ==
  ASSUME NEW x, IsArrays(x.arrays), x.form \in {"none", "annexb", "hvcC"}, NEW dump, NEW frame
  PROVE  CopyTold(x, dump, frame, HevcCopy(x, dump), Written(HevcCopy(x, dump), x, frame))
<1> DEFINE base(type) == \E i \in DOMAIN x.arrays : /\ x.arrays[i].type = type
                                                    /\ [layer |-> 0, size |-> 2] \in Range(x.arrays[i].units)
           whole == ~ x.cut /\ \A type \in ParameterSets : base(type)
           copy == HevcCopy(x, dump)
           written == Written(copy, x, frame)
           sets == NamedSets(x)
<1>1. \A i \in DOMAIN x.arrays : (\E k \in DOMAIN x.arrays[i].units : NamesSet(x.arrays[i].units[k]))
                                  <=> [layer |-> 0, size |-> 2] \in Range(x.arrays[i].units)
  <2> SUFFICES ASSUME NEW i \in DOMAIN x.arrays
               PROVE  (\E k \in DOMAIN x.arrays[i].units : NamesSet(x.arrays[i].units[k]))
                        <=> [layer |-> 0, size |-> 2] \in Range(x.arrays[i].units)
    OBVIOUS
  <2> DEFINE units == x.arrays[i].units
  <2>1. \A u : IsUnit(u) => (NamesSet(u) <=> u = [layer |-> 0, size |-> 2])
    BY DEF IsUnit, NamesSet
  <2>2. \A k \in DOMAIN units : NamesSet(units[k]) <=> units[k] = [layer |-> 0, size |-> 2]
    BY <2>1 DEF IsArrays
  <2> QED
    BY <2>2 DEF Range
<1>2. sets = {x.arrays[i].type : i \in {j \in DOMAIN x.arrays : [layer |-> 0, size |-> 2] \in Range(x.arrays[j].units)}}
  BY <1>1, Zenon DEF NamedSets
<1>3. \A type : type \in sets <=> base(type)
  BY <1>2
<1>4. sets \subseteq ParameterSets
  BY <1>2 DEF IsArrays
<1> DEFINE lacks == x.cut \/ sets # ParameterSets
<1>5. whole <=> ~ lacks
  BY <1>3, <1>4, Zenon
<1>6. copy = IF dump = "whole" /\ x.form = "hvcC" /\ lacks THEN "annexb" ELSE "straight"
  <2>1. HvccLacksParameterSets(x) <=> x.form = "hvcC" /\ lacks
    BY <1>4, Zenon DEF HvccLacksParameterSets
  <2>2. ParameterSetsInBandOnly(x, dump) <=> dump = "whole" /\ HvccLacksParameterSets(x)
    <3> HIDE DEF lacks
    <3> QED
      BY DEF ParameterSetsInBandOnly, CodecPrivate
  <2> HIDE DEF lacks
  <2> QED
    BY <2>1, <2>2, Zenon DEF HevcCopy
<1>7. written = IF copy = "annexb" \/ x.form = "none" THEN frame
                ELSE IF x.form = "annexb" THEN sets
                ELSE IF x.cut \/ ~ ParameterSets \subseteq sets THEN {} ELSE sets
  BY Zenon DEF Written, NamedSets, NamesSet
<1>8. x.cut \/ ~ ParameterSets \subseteq sets <=> lacks
  BY <1>4, Zenon
<1>9. ~ lacks => sets = ParameterSets
  BY Zenon
<1>10. written = IF copy = "annexb" \/ x.form = "none" THEN frame
                 ELSE IF x.form = "annexb" THEN sets
                 ELSE IF lacks THEN {} ELSE sets
  <2> HIDE DEF written, copy, sets, lacks
  <2> QED
    BY <1>7, <1>8, Zenon
<1> HIDE DEF whole, copy, written, sets, lacks
<1>11. /\ dump = "whole" /\ frame = ParameterSets /\ (x.form # "annexb" \/ whole) => written = ParameterSets
       /\ x.form = "hvcC" /\ whole => copy = "straight" /\ written = ParameterSets
       /\ copy = "annexb" => x.form = "hvcC" /\ ~ whole
  BY <1>5, <1>6, <1>9, <1>10
<1> QED
  BY <1>11, Zenon DEF whole, copy, written, CopyTold

\* Each job of a copied stream reads its parameter sets.
LEMMA CopyJob ==
  ASSUME CopyVideo
  PROVE  CopyReads'
<1>1. PICK vps, sps, pps \in Units, form \in {"none", "annexb", "hvcC"}, cut \in BOOLEAN,
           dump \in {"whole", "short", "failed"}, frame \in {ParameterSets, {}, {"sps", "pps"}} :
        LET arrays == <<[type |-> "vps", units |-> vps], [type |-> "sps", units |-> sps],
                        [type |-> "pps", units |-> pps]>>
            extradata == [form |-> form, arrays |-> IF form = "none" THEN <<>> ELSE arrays, cut |-> cut]
            copy == HevcCopy(extradata, dump)
        IN job' = [kind |-> "copy", extradata |-> extradata, dump |-> dump, frame |-> frame, copy |-> copy,
                   written |-> Written(copy, extradata, frame)]
  BY Zenon DEF CopyVideo
<1> DEFINE arrays == <<[type |-> "vps", units |-> vps], [type |-> "sps", units |-> sps],
                       [type |-> "pps", units |-> pps]>>
           x == [form |-> form, arrays |-> IF form = "none" THEN <<>> ELSE arrays, cut |-> cut]
<1>2. \A us \in Units : \A k \in DOMAIN us : IsUnit(us[k])
  BY DEF Units, IsUnit
<1>3. IsArrays(arrays)
  <2>1. DOMAIN arrays = 1 .. 3 /\ arrays[1].type = "vps" /\ arrays[2].type = "sps" /\ arrays[3].type = "pps"
    OBVIOUS
  <2>2. arrays[1].units = vps /\ arrays[2].units = sps /\ arrays[3].units = pps
    OBVIOUS
  <2> HIDE DEF arrays
  <2>3. \A i \in 1 .. 3 : i = 1 \/ i = 2 \/ i = 3
    OBVIOUS
  <2>4. \A i \in 1 .. 3 : arrays[i].type \in ParameterSets /\ arrays[i].units \in Units
    BY <2>1, <2>2, <2>3 DEF ParameterSets
  <2> QED
    BY <1>2, <2>1, <2>4 DEF IsArrays
<1>4. IsArrays(x.arrays)
  <2>1. IsArrays(<<>>)
    BY DEF IsArrays
  <2>2. x.arrays = IF form = "none" THEN <<>> ELSE arrays
    OBVIOUS
  <2> HIDE DEF x, arrays
  <2> QED
    BY <1>3, <2>1, <2>2
<1>5. /\ job'.extradata = x /\ job'.dump = dump /\ job'.frame = frame
      /\ job'.copy = HevcCopy(x, dump) /\ job'.written = Written(HevcCopy(x, dump), x, frame)
  BY <1>1, Zenon
<1>6. x.form \in {"none", "annexb", "hvcC"}
  OBVIOUS
<1> HIDE DEF x
<1>7. CopyTold(x, dump, frame, HevcCopy(x, dump), Written(HevcCopy(x, dump), x, frame))
  BY <1>4, <1>6, CopyHolds, Zenon
<1>8. CopyTold(job'.extradata, job'.dump, job'.frame, job'.copy, job'.written)
  BY <1>5, <1>7
<1> QED
  BY <1>8, Zenon DEF CopyReads, CopyTold

\* The boxes of some kinds are what any such computation of them comes to.
OfStep(s, K, B) == [n \in 1 .. Len(s) |-> [t \in Seq(B) |-> IF s[n].kind \in K THEN Append(t, s[n]) ELSE t]]

\* What is kept of a sequence is what the numbered computation carries out.
LEMMA OfRun ==
  ASSUME NEW B, NEW s \in Seq(B), NEW K
  PROVE  /\ \E f : Carries(f, Len(s), Seq(B), <<>>, OfStep(s, K, B)) /\ Of(s, K) = f[Len(s)]
         /\ \A f : Carries(f, Len(s), Seq(B), <<>>, OfStep(s, K, B)) => Of(s, K) = f[Len(s)]
<1> DEFINE N == Len(s)
           step == OfStep(s, K, B)
           Good(f) == f = [n \in 0 .. N |->
                         IF n = 0 THEN <<>> ELSE IF s[n].kind \in K THEN Append(f[n - 1], s[n]) ELSE f[n - 1]]
           some == CHOOSE f : Good(f)
<1>1. N \in Nat /\ (\A n \in 1 .. N : s[n] \in B) /\ <<>> \in Seq(B)
  OBVIOUS
<1>2. step \in [1 .. N -> [Seq(B) -> Seq(B)]]
  BY <1>1 DEF OfStep
<1>3. \A f : Carries(f, N, Seq(B), <<>>, step) => Good(f)
  <2> SUFFICES ASSUME NEW f, Carries(f, N, Seq(B), <<>>, step)  PROVE Good(f)
    OBVIOUS
  <2>1. f \in [0 .. N -> Seq(B)] /\ f[0] = <<>> /\ \A n \in 1 .. N : f[n] = step[n][f[n - 1]]
    BY Zenon DEF Carries
  <2>2. \A n \in 1 .. N : \A t \in Seq(B) : step[n][t] = IF s[n].kind \in K THEN Append(t, s[n]) ELSE t
    BY DEF OfStep
  <2> HIDE DEF N, step
  <2>3. \A n \in 1 .. N : f[n - 1] \in Seq(B)
    BY <1>1, <2>1
  <2>4. \A n \in 0 .. N : f[n] = IF n = 0 THEN <<>> ELSE IF s[n].kind \in K THEN Append(f[n - 1], s[n]) ELSE f[n - 1]
    <3>1. \A n \in 0 .. N : n = 0 \/ n \in 1 .. N
      BY <1>1
    <3>2. \A n \in 1 .. N : n # 0
      BY <1>1
    <3> QED
      BY <2>1, <2>2, <2>3, <3>1, <3>2, Zenon
  <2>5. DOMAIN f = 0 .. N /\ f = [n \in 0 .. N |-> f[n]]
    BY <2>1
  <2> QED
    BY <2>4, <2>5, Zenon
<1>4. PICK g : Carries(g, N, Seq(B), <<>>, step)
  <2> HIDE DEF step, N
  <2> QED
    BY <1>1, <1>2, CarriedOut
<1>5. Of(s, K) = some[N]
  BY Zenon DEF Of
<1>6. Good(some)
  <2> HIDE DEF Good
  <2> QED
    BY <1>3, <1>4
<1>7. Carries(some, N, Seq(B), <<>>, step)
  <2> HIDE DEF some
  <2> DEFINE bad == {m \in 0 .. N : some[m] \notin Seq(B)}
  <2>1. some[0] = <<>> /\ DOMAIN some = 0 .. N /\ some = [n \in 0 .. N |-> some[n]]
    BY <1>1, <1>6
  <2>2. \A n \in 1 .. N : some[n] = IF s[n].kind \in K THEN Append(some[n - 1], s[n]) ELSE some[n - 1]
    <3>1. \A n \in 1 .. N : n \in 0 .. N /\ n # 0
      BY <1>1
    <3> HIDE DEF N
    <3> QED
      BY <1>6, <3>1, Zenon
  <2>3. bad = {}
    <3> SUFFICES ASSUME bad # {}  PROVE FALSE
      OBVIOUS
    <3>1. bad \subseteq Nat
      OBVIOUS
    <3>2. PICK m \in bad : \A k \in bad : m <= k
      <4> HIDE DEF bad
      <4> QED
        BY <3>1, LeastNumber
    <3>3. m # 0
      BY <1>1, <2>1
    <3>4. m \in 1 .. N /\ m - 1 \in 0 .. N /\ ~ (m <= m - 1)
      BY <3>3
    <3>5. some[m - 1] \in Seq(B)
      BY <3>2, <3>4
    <3>6. some[m] \in Seq(B)
      <4> HIDE DEF N, bad
      <4>1. s[m] \in B
        BY <1>1, <3>4
      <4>2. Append(some[m - 1], s[m]) \in Seq(B)
        BY <3>5, <4>1, AppendProperties, Zenon
      <4> QED
        BY <2>2, <3>4, <3>5, <4>2, Zenon
    <3> QED
      BY <3>2, <3>6
  <2>4. some \in [0 .. N -> Seq(B)]
    BY <2>1, <2>3
  <2>5. \A n \in 1 .. N : some[n] = step[n][some[n - 1]]
    <3> SUFFICES ASSUME NEW n \in 1 .. N  PROVE some[n] = step[n][some[n - 1]]
      OBVIOUS
    <3>1. some[n - 1] \in Seq(B)
      BY <2>4
    <3>2. step[n] = [t \in Seq(B) |-> IF s[n].kind \in K THEN Append(t, s[n]) ELSE t]
      BY DEF OfStep
    <3> QED
      BY <2>2, <3>1, <3>2
  <2> QED
    BY <2>1, <2>4, <2>5 DEF Carries
<1> HIDE DEF some, step, N
<1>8. \A f : Carries(f, N, Seq(B), <<>>, step) => f[N] = some[N]
  BY <1>1, <1>7, CarriedOnce
<1> QED
  BY <1>5, <1>7, <1>8 DEF step, N

\* The same, step by step.
OfSteps(f, s, K, B) ==
  /\ f \in [0 .. Len(s) -> Seq(B)] /\ f[0] = <<>>
  /\ \A n \in 1 .. Len(s) : f[n] = IF s[n].kind \in K THEN Append(f[n - 1], s[n]) ELSE f[n - 1]

\* The same, one box after another.
LEMMA OfRuns ==
  ASSUME NEW B, NEW s \in Seq(B), NEW K
  PROVE  /\ \E f : OfSteps(f, s, K, B) /\ Of(s, K) = f[Len(s)]
         /\ \A f : OfSteps(f, s, K, B) => Of(s, K) = f[Len(s)]
<1> DEFINE N == Len(s)
           step == OfStep(s, K, B)
<1>1. N \in Nat
  OBVIOUS
<1>2. \A n \in 1 .. N : \A t \in Seq(B) : step[n][t] = IF s[n].kind \in K THEN Append(t, s[n]) ELSE t
  BY DEF OfStep
<1> HIDE DEF N, step
<1>3. \A f : f \in [0 .. N -> Seq(B)] => \A n \in 1 .. N : f[n - 1] \in Seq(B)
  BY <1>1
<1>4. \A f : f \in [0 .. N -> Seq(B)] =>
        \A n \in 1 .. N : step[n][f[n - 1]] = IF s[n].kind \in K THEN Append(f[n - 1], s[n]) ELSE f[n - 1]
  BY <1>2, <1>3, Zenon
<1>5. \A f : OfSteps(f, s, K, B) <=> Carries(f, N, Seq(B), <<>>, step)
  BY <1>4, Zenon DEF OfSteps, Carries, N
<1> QED
  BY <1>5, OfRun, Zenon DEF N, step

\* They are some of the boxes.
LEMMA OfTyped ==
  ASSUME NEW B, NEW s \in Seq(B), NEW K
  PROVE  Of(s, K) \in Seq(B)
<1>1. PICK f : OfSteps(f, s, K, B) /\ Of(s, K) = f[Len(s)]
  BY OfRuns
<1>2. Len(s) \in 0 .. Len(s) /\ f \in [0 .. Len(s) -> Seq(B)]
  BY <1>1 DEF OfSteps
<1> QED
  BY <1>1, <1>2

\* Of what is put together, what is of some kinds of each part.
LEMMA OfJoined ==
  \A B, K : \A s \in Seq(B) : \A t \in Seq(B) : Of(s \o t, K) = Of(s, K) \o Of(t, K)
<1> TAKE B, K
<1> TAKE s \in Seq(B)
<1> TAKE t \in Seq(B)
<1> DEFINE a == Len(s)
           b == Len(t)
           u == s \o t
<1>1. PICK f : OfSteps(f, s, K, B) /\ Of(s, K) = f[a]
  BY OfRuns
<1>2. PICK g : OfSteps(g, t, K, B) /\ Of(t, K) = g[b]
  BY OfRuns
<1>3. a \in Nat /\ b \in Nat /\ u \in Seq(B) /\ Len(u) = a + b
  OBVIOUS
<1>4. (\A n \in 1 .. a : u[n] = s[n]) /\ (\A n \in 1 .. b : u[n + a] = t[n])
  OBVIOUS
<1>5. /\ f \in [0 .. a -> Seq(B)] /\ f[0] = <<>>
      /\ \A n \in 1 .. a : f[n] = IF s[n].kind \in K THEN Append(f[n - 1], s[n]) ELSE f[n - 1]
  BY <1>1, Zenon DEF OfSteps
<1>6. /\ g \in [0 .. b -> Seq(B)] /\ g[0] = <<>>
      /\ \A n \in 1 .. b : g[n] = IF t[n].kind \in K THEN Append(g[n - 1], t[n]) ELSE g[n - 1]
  BY <1>2, Zenon DEF OfSteps
<1>7. (\A n \in 1 .. a : s[n] \in B) /\ (\A n \in 1 .. b : t[n] \in B)
  OBVIOUS
<1> HIDE DEF a, b, u
<1> DEFINE h == [n \in 0 .. (a + b) |-> IF n <= a THEN f[n] ELSE f[a] \o g[n - a]]
<1>8. h \in [0 .. (a + b) -> Seq(B)]
  <2>1. \A n \in 0 .. (a + b) : n > a => n - a \in 0 .. b
    BY <1>3
  <2>2. \A x, y \in Seq(B) : x \o y \in Seq(B)
    OBVIOUS
  <2>3. \A n \in 0 .. (a + b) : h[n] \in Seq(B)
    BY <1>3, <1>5, <1>6, <2>1, <2>2
  <2> QED
    BY <2>3
<1>9. h[0] = <<>>
  BY <1>3, <1>5
<1>10. \A n \in 0 .. (a + b) : n <= a => h[n] = f[n]
  OBVIOUS
<1>11. \A n \in 0 .. (a + b) : n > a => h[n] = f[a] \o g[n - a]
  <2>1. \A n \in 0 .. (a + b) : n > a => ~ (n <= a)
    BY <1>3
  <2> QED
    BY <2>1, Zenon
<1> HIDE DEF h
<1>12. ASSUME NEW n \in 1 .. (a + b)
       PROVE  h[n] = IF u[n].kind \in K THEN Append(h[n - 1], u[n]) ELSE h[n - 1]
  <2>1. CASE n <= a
    <3>1. n \in 1 .. a /\ n \in 0 .. (a + b) /\ n - 1 \in 0 .. (a + b) /\ n - 1 <= a
      BY <1>3, <2>1
    <3> QED
      BY <1>4, <1>5, <1>10, <2>1, <3>1, Zenon
  <2>2. CASE n > a
    <3>1. n - a \in 1 .. b /\ (n - a) - 1 \in 0 .. b /\ n \in 0 .. (a + b) /\ n - 1 \in 0 .. (a + b) /\ 0 \in 0 .. b
          /\ a \in 0 .. a
      BY <1>3, <2>2
    <3>2. u[n] = t[n - a]
      <4>1. (n - a) + a = n
        BY <1>3
      <4> QED
        BY <1>4, <3>1, <4>1
    <3> DEFINE x == f[a]
               y == g[(n - a) - 1]
               z == t[n - a]
    <3>3. x \in Seq(B) /\ y \in Seq(B) /\ z \in B
      BY <1>5, <1>6, <1>7, <3>1
    <3>4. g[n - a] = IF z.kind \in K THEN Append(y, z) ELSE y
      BY <1>6, <3>1, Zenon
    <3>5. h[n] = x \o g[n - a]
      BY <1>11, <2>2, <3>1, Zenon
    <3>6. h[n - 1] = x \o y
      <4>1. CASE n = a + 1
        <5>1. (n - a) - 1 = 0 /\ n - 1 = a /\ n - 1 <= a
          BY <1>3, <4>1
        <5>2. y = <<>> /\ h[n - 1] = x
          BY <1>6, <1>10, <3>1, <5>1, Zenon
        <5> HIDE DEF x, y
        <5> QED
          BY <3>3, <5>2
      <4>2. CASE n # a + 1
        <5>1. n - 1 > a /\ (n - 1) - a = (n - a) - 1
          BY <1>3, <2>2, <4>2
        <5>2. h[n - 1] = x \o g[(n - 1) - a]
          BY <1>11, <3>1, <5>1, Zenon
        <5> QED
          BY <5>1, <5>2, Zenon
      <4> QED
        BY <4>1, <4>2
    <3> HIDE DEF x, y, z
    <3>7. Append(x \o y, z) = x \o Append(y, z)
      BY <3>3, AppendJoined, Zenon
    <3> QED
      BY <3>2, <3>4, <3>5, <3>6, <3>7, Zenon DEF z
  <2> QED
    BY <1>3, <2>1, <2>2
<1>13. OfSteps(h, u, K, B)
  BY <1>3, <1>8, <1>9, <1>12, Zenon DEF OfSteps
<1>14. Of(u, K) = h[a + b]
  BY <1>3, <1>13, OfRuns
<1>15. f[a] \in Seq(B) /\ g[b] \in Seq(B)
  BY <1>3, <1>5, <1>6
<1>16. h[a + b] = f[a] \o g[b]
  <2>1. CASE b = 0
    <3>1. a + b = a /\ a \in 0 .. (a + b) /\ a <= a
      BY <1>3, <2>1
    <3>2. h[a + b] = f[a] /\ g[b] = <<>>
      BY <1>6, <1>10, <2>1, <3>1, Zenon
    <3> QED
      BY <1>15, <3>2
  <2>2. CASE b # 0
    <3>1. a + b \in 0 .. (a + b) /\ a + b > a /\ (a + b) - a = b
      BY <1>3, <2>2
    <3> QED
      BY <1>11, <3>1
  <2> QED
    BY <2>1, <2>2
<1> QED
  BY <1>1, <1>2, <1>14, <1>16 DEF u

\* Of one.
LEMMA OfOne ==
  ASSUME NEW B, NEW x \in B, NEW K
  PROVE  Of(<<>>, K) = <<>> /\ Of(<<x>>, K) = IF x.kind \in K THEN <<x>> ELSE <<>>
<1>1. <<>> \in Seq(B) /\ <<x>> \in Seq(B)
  OBVIOUS
<1>2. PICK f : OfSteps(f, <<>>, K, B) /\ Of(<<>>, K) = f[Len(<<>>)]
  BY <1>1, OfRuns
<1>3. PICK g : OfSteps(g, <<x>>, K, B) /\ Of(<<x>>, K) = g[Len(<<x>>)]
  BY <1>1, OfRuns
<1>4. Len(<<>>) = 0 /\ Len(<<x>>) = 1 /\ <<x>>[1] = x /\ Append(<<>>, x) = <<x>> /\ 1 \in 1 .. 1 /\ 1 - 1 = 0
  OBVIOUS
<1>5. Of(<<>>, K) = <<>>
  BY <1>2, <1>4 DEF OfSteps
<1>6. g[0] = <<>> /\ g[1] = IF x.kind \in K THEN Append(g[0], x) ELSE g[0]
  BY <1>3, <1>4, Zenon DEF OfSteps
<1> QED
  BY <1>3, <1>4, <1>5, <1>6

\* Boxes with sizes.
AreSized(s) == DOMAIN s = 1 .. Len(s) /\ Len(s) \in Nat /\ \A n \in DOMAIN s : s[n].size \in Nat

SizeSteps(f, s) ==
  /\ f \in [0 .. Len(s) -> Nat] /\ f[0] = 0 /\ \A n \in 1 .. Len(s) : f[n] = f[n - 1] + s[n].size

\* Their size is what any such sum of them comes to.
LEMMA SizeRuns ==
  ASSUME NEW s, AreSized(s)
  PROVE  /\ \E f : SizeSteps(f, s) /\ SizeOf(s) = f[Len(s)]
         /\ \A f : SizeSteps(f, s) => SizeOf(s) = f[Len(s)]
<1> DEFINE N == Len(s)
           step == [n \in 1 .. N |-> [t \in Nat |-> t + s[n].size]]
           Good(f) == f = [n \in 0 .. N |-> IF n = 0 THEN 0 ELSE f[n - 1] + s[n].size]
           sum == CHOOSE f : Good(f)
<1>1. N \in Nat /\ 0 \in Nat /\ \A n \in 1 .. N : s[n].size \in Nat
  BY DEF AreSized
<1>2. step \in [1 .. N -> [Nat -> Nat]]
  BY <1>1
<1>3. \A n \in 1 .. N : \A t \in Nat : step[n][t] = t + s[n].size
  OBVIOUS
<1>4. SizeOf(s) = sum[N]
  BY Zenon DEF SizeOf
<1>5. \A f : f \in [0 .. N -> Nat] => \A n \in 1 .. N : f[n - 1] \in Nat
  BY <1>1
<1>6. \A f : Carries(f, N, Nat, 0, step) <=> SizeSteps(f, s)
  <2> HIDE DEF step, N
  <2>1. \A f : f \in [0 .. N -> Nat] => \A n \in 1 .. N : step[n][f[n - 1]] = f[n - 1] + s[n].size
    BY <1>3, <1>5, Zenon
  <2> QED
    BY <2>1, Zenon DEF Carries, SizeSteps, N
<1>7. \E f : SizeSteps(f, s)
  <2> HIDE DEF step, N
  <2>1. \E f : Carries(f, N, Nat, 0, step)
    BY <1>1, <1>2, CarriedOut
  <2> QED
    BY <1>6, <2>1
<1>8. \A f : SizeSteps(f, s) => Good(f)
  <2> SUFFICES ASSUME NEW f, SizeSteps(f, s)  PROVE Good(f)
    OBVIOUS
  <2>1. f \in [0 .. N -> Nat] /\ f[0] = 0 /\ \A n \in 1 .. N : f[n] = f[n - 1] + s[n].size
    BY Zenon DEF SizeSteps
  <2> HIDE DEF N
  <2>2. \A n \in 0 .. N : n = 0 \/ (n \in 1 .. N /\ n # 0)
    BY <1>1
  <2>3. \A n \in 0 .. N : f[n] = IF n = 0 THEN 0 ELSE f[n - 1] + s[n].size
    BY <2>1, <2>2, Zenon
  <2>4. f = [n \in 0 .. N |-> f[n]]
    BY <2>1
  <2> QED
    BY <2>3, <2>4, Zenon
<1>9. Good(sum)
  <2> HIDE DEF Good
  <2> QED
    BY <1>7, <1>8
<1>10. SizeSteps(sum, s)
  <2> HIDE DEF sum, step
  <2>1. sum = [n \in 0 .. N |-> IF n = 0 THEN 0 ELSE sum[n - 1] + s[n].size]
    BY <1>9
  <2> HIDE DEF Good
  <2>2. DOMAIN sum = 0 .. N /\ sum = [n \in 0 .. N |-> sum[n]] /\ sum[0] = 0
    BY <1>1, <2>1
  <2>3. \A n \in 1 .. N : sum[n] = sum[n - 1] + s[n].size
    <3>1. \A n \in 1 .. N : n \in 0 .. N /\ n # 0
      BY <1>1
    <3> HIDE DEF N
    <3> QED
      BY <2>1, <3>1, Zenon
  <2> DEFINE bad == {m \in 0 .. N : sum[m] \notin Nat}
  <2>4. bad = {}
    <3> SUFFICES ASSUME bad # {}  PROVE FALSE
      OBVIOUS
    <3>1. bad \subseteq Nat
      BY <1>1
    <3>2. PICK m \in bad : \A k \in bad : m <= k
      <4> HIDE DEF bad
      <4> QED
        BY <3>1, LeastNumber
    <3>3. m # 0
      BY <1>1, <2>2
    <3>4. m \in 1 .. N /\ m - 1 \in 0 .. N /\ ~ (m <= m - 1)
      BY <1>1, <3>3
    <3>5. sum[m - 1] \in Nat
      BY <3>2, <3>4
    <3>6. sum[m] = sum[m - 1] + s[m].size /\ s[m].size \in Nat
      BY <1>1, <2>3, <3>4, Zenon
    <3> QED
      BY <3>2, <3>5, <3>6
  <2>5. sum \in [0 .. N -> Nat]
    BY <2>2, <2>4
  <2> QED
    BY <2>2, <2>3, <2>5, Zenon DEF SizeSteps
<1> HIDE DEF sum, step, N
<1>11. \A f : SizeSteps(f, s) => f[N] = sum[N]
  <2> SUFFICES ASSUME NEW f, SizeSteps(f, s)  PROVE f[N] = sum[N]
    OBVIOUS
  <2>1. Carries(f, N, Nat, 0, step) /\ Carries(sum, N, Nat, 0, step)
    BY <1>6, <1>10
  <2> QED
    BY <1>1, <2>1, CarriedOnce
<1> QED
  BY <1>4, <1>10, <1>11 DEF N

\* Of what is put together, the sizes add up.
LEMMA SizesAdd ==
  ASSUME NEW B, \A x \in B : x.size \in Nat, NEW s \in Seq(B), NEW t \in Seq(B)
  PROVE  SizeOf(s) \in Nat /\ SizeOf(t) \in Nat /\ SizeOf(s \o t) = SizeOf(s) + SizeOf(t)
<1> DEFINE a == Len(s)
           b == Len(t)
           u == s \o t
<1>1. \A v \in Seq(B) : AreSized(v)
  BY DEF AreSized
<1>2. PICK f : SizeSteps(f, s) /\ SizeOf(s) = f[a]
  BY <1>1, SizeRuns
<1>3. PICK g : SizeSteps(g, t) /\ SizeOf(t) = g[b]
  BY <1>1, SizeRuns
<1>4. a \in Nat /\ b \in Nat /\ u \in Seq(B) /\ Len(u) = a + b
  OBVIOUS
<1>5. (\A n \in 1 .. a : u[n] = s[n]) /\ (\A n \in 1 .. b : u[n + a] = t[n])
  OBVIOUS
<1>6. f \in [0 .. a -> Nat] /\ f[0] = 0 /\ \A n \in 1 .. a : f[n] = f[n - 1] + s[n].size
  BY <1>2, Zenon DEF SizeSteps
<1>7. g \in [0 .. b -> Nat] /\ g[0] = 0 /\ \A n \in 1 .. b : g[n] = g[n - 1] + t[n].size
  BY <1>3, Zenon DEF SizeSteps
<1>8. (\A n \in 1 .. a : s[n].size \in Nat) /\ (\A n \in 1 .. b : t[n].size \in Nat)
  OBVIOUS
<1> HIDE DEF a, b, u
<1> DEFINE h == [n \in 0 .. (a + b) |-> IF n <= a THEN f[n] ELSE f[a] + g[n - a]]
<1>9. f[a] \in Nat /\ g[b] \in Nat
  BY <1>4, <1>6, <1>7
<1>10. \A n \in 0 .. (a + b) : /\ n <= a => h[n] = f[n] /\ n \in 0 .. a
                               /\ n > a => h[n] = f[a] + g[n - a] /\ n - a \in 1 .. b /\ (n - a) + a = n
  BY <1>4
<1>11. h \in [0 .. (a + b) -> Nat]
  BY <1>4, <1>6, <1>7, <1>9
<1> HIDE DEF h
<1>12. ASSUME NEW n \in 1 .. (a + b)  PROVE h[n] = h[n - 1] + u[n].size
  <2>1. n \in 0 .. (a + b) /\ n - 1 \in 0 .. (a + b)
    BY <1>4
  <2>2. CASE n <= a
    <3>1. n \in 1 .. a /\ n - 1 <= a
      BY <1>4, <2>2
    <3>2. u[n] = s[n] /\ h[n] = f[n] /\ h[n - 1] = f[n - 1] /\ f[n] = f[n - 1] + s[n].size
      BY <1>5, <1>6, <1>10, <2>1, <2>2, <3>1
    <3> QED
      BY <3>2
  <2>3. CASE n = a + 1
    <3>1. n > a /\ n - 1 <= a /\ n - a = 1 /\ n - 1 = a /\ 1 \in 1 .. b
      BY <1>4, <2>3
    <3>2. u[n] = t[1] /\ h[n] = f[a] + g[1] /\ h[n - 1] = f[a]
      BY <1>5, <1>10, <2>1, <3>1
    <3>3. g[1] = g[0] + t[1].size
      BY <1>7, <3>1
    <3> QED
      BY <1>7, <1>8, <1>9, <3>1, <3>2, <3>3
  <2>4. CASE n > a + 1
    <3>1. n > a /\ n - 1 > a /\ n - a \in 1 .. b /\ (n - 1) - a = (n - a) - 1 /\ (n - a) - 1 \in 0 .. b
      BY <1>4, <2>4
    <3>2. u[n] = t[n - a] /\ h[n] = f[a] + g[n - a] /\ h[n - 1] = f[a] + g[(n - a) - 1]
      BY <1>5, <1>10, <2>1, <3>1
    <3>3. g[n - a] = g[(n - a) - 1] + t[n - a].size /\ g[(n - a) - 1] \in Nat /\ t[n - a].size \in Nat
      BY <1>7, <1>8, <3>1
    <3> QED
      BY <1>9, <3>2, <3>3
  <2> QED
    BY <1>4, <2>2, <2>3, <2>4
<1>13. h[0] = 0
  BY <1>4, <1>6, <1>10
<1>14. SizeSteps(h, u)
  BY <1>4, <1>11, <1>12, <1>13, Zenon DEF SizeSteps
<1>15. SizeOf(u) = h[a + b]
  BY <1>1, <1>4, <1>14, SizeRuns
<1>16. h[a + b] = f[a] + g[b]
  <2>1. a + b \in 0 .. (a + b) /\ (b = 0 => a + b <= a /\ a + b = a) /\ (b # 0 => a + b > a /\ (a + b) - a = b)
    BY <1>4
  <2>2. CASE b = 0
    BY <1>7, <1>9, <1>10, <2>1, <2>2
  <2>3. CASE b # 0
    BY <1>10, <2>1, <2>3
  <2> QED
    BY <2>2, <2>3
<1> QED
  BY <1>2, <1>3, <1>9, <1>15, <1>16 DEF u

\* Of one, its own.
LEMMA SizeOfOne ==
  ASSUME NEW x, x.size \in Nat
  PROVE  SizeOf(<<>>) = 0 /\ SizeOf(<<x>>) = x.size
<1>1. AreSized(<<>>) /\ AreSized(<<x>>)
  BY DEF AreSized
<1>2. PICK f : SizeSteps(f, <<>>) /\ SizeOf(<<>>) = f[Len(<<>>)]
  BY <1>1, SizeRuns
<1>3. PICK g : SizeSteps(g, <<x>>) /\ SizeOf(<<x>>) = g[Len(<<x>>)]
  BY <1>1, SizeRuns
<1>4. Len(<<>>) = 0 /\ Len(<<x>>) = 1 /\ <<x>>[1] = x /\ 1 \in 1 .. 1 /\ 1 - 1 = 0
  OBVIOUS
<1>5. f[0] = 0 /\ g[0] = 0 /\ g[1] = g[0] + x.size
  BY <1>2, <1>3, <1>4, Zenon DEF SizeSteps
<1> QED
  BY <1>2, <1>3, <1>4, <1>5

\* Of boxes none of which is of a kind there are none; of boxes one of which
\* is there is one.
LEMMA OfNoneOrSome ==
  ASSUME NEW B, NEW s \in Seq(B), NEW K
  PROVE  /\ (\A i \in 1 .. Len(s) : s[i].kind \notin K) => Of(s, K) = <<>>
         /\ (\E i \in 1 .. Len(s) : s[i].kind \in K) => Len(Of(s, K)) >= 1
<1>1. ASSUME \A i \in 1 .. Len(s) : s[i].kind \notin K  PROVE Of(s, K) = <<>>
  <2> DEFINE f == [n \in 0 .. Len(s) |-> <<>>]
  <2>1. Len(s) \in Nat /\ <<>> \in Seq(B)
    OBVIOUS
  <2>2. f \in [0 .. Len(s) -> Seq(B)] /\ \A n \in 0 .. Len(s) : f[n] = <<>>
    BY <2>1
  <2>3. \A n \in 1 .. Len(s) : n \in 0 .. Len(s) /\ n - 1 \in 0 .. Len(s)
    BY <2>1
  <2>4. 0 \in 0 .. Len(s) /\ Len(s) \in 0 .. Len(s)
    BY <2>1
  <2> HIDE DEF f
  <2>5. OfSteps(f, s, K, B)
    BY <1>1, <2>2, <2>3, <2>4, Zenon DEF OfSteps
  <2>6. Of(s, K) = f[Len(s)]
    BY <2>5, OfRuns
  <2> QED
    BY <2>2, <2>4, <2>6
<1>2. ASSUME NEW i \in 1 .. Len(s), s[i].kind \in K  PROVE Len(Of(s, K)) >= 1
  <2> DEFINE front == SubSeq(s, 1, i - 1)
             this == <<s[i]>>
             rest == SubSeq(s, i + 1, Len(s))
  <2>1. Len(s) \in Nat /\ s[i] \in B /\ i - 1 \in 0 .. Len(s) /\ i \in 0 .. Len(s) /\ i \in 1 .. Len(s)
        /\ i \in i .. Len(s)
    OBVIOUS
  <2>2. front \in Seq(B) /\ rest \in Seq(B) /\ SubSeq(s, 1, i) \in Seq(B) /\ SubSeq(s, 1, i) \o rest = s
    BY <2>1, CutAt
  <2>3. SubSeq(s, 1, i) = front \o this
    <3>1. 1 \in 1 .. Len(s) /\ i \in 1 .. Len(s)
      BY <2>1
    <3> QED
      BY <3>1, SubSeqRecursiveSecond
  <2>4. this \in Seq(B)
    BY <2>1
  <2> HIDE DEF front, this, rest
  <2>5. \A p, q \in Seq(B) : /\ Of(p, K) \in Seq(B) /\ Of(p \o q, K) = Of(p, K) \o Of(q, K)
                              /\ p \o q \in Seq(B) /\ Len(p \o q) = Len(p) + Len(q) /\ Len(p) \in Nat
    <3> SUFFICES ASSUME NEW p \in Seq(B), NEW q \in Seq(B)
                 PROVE  /\ Of(p, K) \in Seq(B) /\ Of(p \o q, K) = Of(p, K) \o Of(q, K)
                        /\ p \o q \in Seq(B) /\ Len(p \o q) = Len(p) + Len(q) /\ Len(p) \in Nat
      OBVIOUS
    <3>1. Of(p, K) \in Seq(B) /\ Of(p \o q, K) = Of(p, K) \o Of(q, K)
      <4>1. Of(p, K) \in Seq(B)
        BY OfTyped
      <4>2. Of(p \o q, K) = Of(p, K) \o Of(q, K)
        BY OfJoined, Zenon
      <4> QED
        BY <4>1, <4>2, Zenon
    <3>2. p \o q \in Seq(B) /\ Len(p \o q) = Len(p) + Len(q) /\ Len(p) \in Nat
      BY ConcatProperties, LenProperties, Zenon
    <3> QED
      BY <3>1, <3>2, Zenon
  <2>6. /\ Of(front \o this, K) = Of(front, K) \o Of(this, K)
        /\ Of(front, K) \in Seq(B) /\ Of(this, K) \in Seq(B) /\ Of(rest, K) \in Seq(B)
    BY <2>2, <2>4, <2>5, Zenon
  <2>7. front \o this \in Seq(B) /\ Of(s, K) = Of(front \o this, K) \o Of(rest, K)
    BY <2>2, <2>3, <2>4, <2>5, Zenon
  <2>8. Len(Of(this, K)) = 1
    <3>1. Of(this, K) = this
      BY <1>2, <2>1, OfOne DEF this
    <3> QED
      BY <3>1 DEF this
  <2> DEFINE x == Of(front, K)
             y == Of(this, K)
             z == Of(rest, K)
  <2>9. Of(s, K) = (x \o y) \o z /\ x \in Seq(B) /\ y \in Seq(B) /\ z \in Seq(B) /\ Len(y) = 1
    BY <2>6, <2>7, <2>8
  <2> HIDE DEF x, y, z
  <2>10. Len((x \o y) \o z) = Len(x) + Len(y) + Len(z) /\ Len(x) \in Nat /\ Len(z) \in Nat
    <3>1. x \o y \in Seq(B) /\ Len(x \o y) = Len(x) + Len(y)
      BY <2>9, <2>5, Zenon
    <3>2. Len((x \o y) \o z) = Len(x \o y) + Len(z) /\ Len(x) \in Nat /\ Len(z) \in Nat
      BY <2>9, <2>5, <3>1, Zenon
    <3> QED
      BY <3>1, <3>2
  <2>11. Len(Of(s, K)) = Len(x) + 1 + Len(z) /\ Len(x) \in Nat /\ Len(z) \in Nat
    BY <2>9, <2>10, Zenon
  <2> QED
    BY <2>11
<1> QED
  BY <1>1, <1>2

\* Of the two boxes of the metadata.
Clli == [kind |-> "clli", size |-> 12]
Mdcv == [kind |-> "mdcv", size |-> 32]

Both(K) == (IF "clli" \in K THEN <<Clli>> ELSE <<>>) \o (IF "mdcv" \in K THEN <<Mdcv>> ELSE <<>>)

\* What is kept of the two boxes, and of what was kept.
LEMMA OfBoth ==
  ASSUME NEW K, NEW W
  PROVE  /\ Of(<<Clli, Mdcv>>, W) = Both(W)
         /\ Of(Both(W), K) = Both(W \cap K)
<1> DEFINE B == {Clli, Mdcv}
<1>1. <<Clli>> \in Seq(B) /\ <<Mdcv>> \in Seq(B) /\ <<>> \in Seq(B) /\ <<Clli, Mdcv>> = <<Clli>> \o <<Mdcv>>
  <2>1. <<Clli, Mdcv>> = <<Clli>> \o <<Mdcv>>
    BY TwoAppended, Zenon
  <2>2. <<Clli>> \in Seq(B) /\ <<Mdcv>> \in Seq(B) /\ <<>> \in Seq(B)
    OBVIOUS
  <2> QED
    BY <2>1, <2>2, Zenon
<1>2. Clli.kind = "clli" /\ Mdcv.kind = "mdcv"
  BY DEF Clli, Mdcv
<1>3. \A S : /\ Of(<<>>, S) = <<>>
             /\ Of(<<Clli>>, S) = IF "clli" \in S THEN <<Clli>> ELSE <<>>
             /\ Of(<<Mdcv>>, S) = IF "mdcv" \in S THEN <<Mdcv>> ELSE <<>>
  <2> SUFFICES ASSUME NEW S
               PROVE  /\ Of(<<>>, S) = <<>>
                      /\ Of(<<Clli>>, S) = IF "clli" \in S THEN <<Clli>> ELSE <<>>
                      /\ Of(<<Mdcv>>, S) = IF "mdcv" \in S THEN <<Mdcv>> ELSE <<>>
    OBVIOUS
  <2>1. Clli \in B /\ Mdcv \in B
    OBVIOUS
  <2> QED
    BY <1>2, <2>1, OfOne, Zenon
<1> HIDE DEF B
<1>4. \A S : \A s \in Seq(B) : \A t \in Seq(B) : Of(s \o t, S) = Of(s, S) \o Of(t, S)
  BY OfJoined, Zenon
<1>5. \A S : Of(<<Clli, Mdcv>>, S) = Both(S)
  <2> TAKE S
  <2>1. Of(<<Clli, Mdcv>>, S) = Of(<<Clli>>, S) \o Of(<<Mdcv>>, S)
    BY <1>1, <1>4, Zenon
  <2> QED
    BY <1>3, <2>1, Zenon DEF Both
<1>6. Of(Both(W), K) = Both(W \cap K)
  <2>1. \A s, t \in Seq(B) : Of(s \o t, K) = Of(s, K) \o Of(t, K)
    BY <1>4, Zenon
  <2>2. CASE "clli" \in W /\ "mdcv" \in W
    BY <1>1, <1>3, <2>1, <2>2, Zenon DEF Both
  <2>3. CASE "clli" \in W /\ "mdcv" \notin W
    BY <1>1, <1>3, <2>1, <2>3, Zenon DEF Both
  <2>4. CASE "clli" \notin W /\ "mdcv" \in W
    BY <1>1, <1>3, <2>1, <2>4, Zenon DEF Both
  <2>5. CASE "clli" \notin W /\ "mdcv" \notin W
    BY <1>1, <1>3, <2>1, <2>5, Zenon DEF Both
  <2> QED
    BY <2>2, <2>3, <2>4, <2>5
<1> QED
  BY <1>5, <1>6

\* Boxes of a sample entry, levels and init segments.
Box == [kind : {"hvcC", "colr", "mdcv", "clli"}, size : Nat]

IsLevel(l) == /\ l = [header |-> l.header, declared |-> l.declared, before |-> l.before, after |-> l.after]
              /\ l.header \in Nat /\ l.declared \in Nat /\ l.before \in Nat /\ l.after \in Nat

IsInit(init) ==
  /\ init = [levels |-> init.levels, children |-> init.children, media |-> init.media, one |-> init.one]
  /\ \E n \in Nat : DOMAIN init.levels = 1 .. n /\ init.levels = [k \in 1 .. n |-> init.levels[k]]
  /\ \A k \in DOMAIN init.levels : IsLevel(init.levels[k])
  /\ init.children \in Seq(Box)

\* What any of the metadata's boxes are, and how many of a kind.
LEMMA BothAre ==
  ASSUME NEW A, A \subseteq Kinds
  PROVE  /\ Both(A) \in Seq(Box)
         /\ \A kind : Len(Both(A \cap {kind})) = IF kind \in A THEN 1 ELSE 0
<1>1. <<Clli>> \in Seq(Box) /\ <<Mdcv>> \in Seq(Box) /\ <<>> \in Seq(Box)
  <2>1. Clli \in Box /\ Mdcv \in Box
    BY DEF Clli, Mdcv, Box
  <2> HIDE DEF Box
  <2> QED
    BY <2>1
<1>2. \A s, t \in Seq(Box) : s \o t \in Seq(Box) /\ Len(s \o t) = Len(s) + Len(t)
  BY ConcatProperties
<1>3. Both(A) \in Seq(Box)
  BY <1>1, <1>2, Zenon DEF Both
<1>4. Len(<<Clli>>) = 1 /\ Len(<<Mdcv>>) = 1 /\ Len(<<>>) = 0 /\ 0 + 0 = 0 /\ 0 + 1 = 1 /\ 1 + 0 = 1
  OBVIOUS
<1>5. ASSUME NEW kind  PROVE Len(Both(A \cap {kind})) = IF kind \in A THEN 1 ELSE 0
  <2> DEFINE S == A \cap {kind}
  <2>1. ("clli" \in S <=> kind = "clli" /\ kind \in A) /\ ("mdcv" \in S <=> kind = "mdcv" /\ kind \in A)
    OBVIOUS
  <2>2. kind \in A => kind = "clli" \/ kind = "mdcv"
    BY DEF Kinds
  <2>3. ~ (kind = "clli" /\ kind = "mdcv")
    OBVIOUS
  <2> HIDE DEF S
  <2>4. Len(Both(S)) = Len(IF "clli" \in S THEN <<Clli>> ELSE <<>>) + Len(IF "mdcv" \in S THEN <<Mdcv>> ELSE <<>>)
    BY <1>1, <1>2, Zenon DEF Both
  <2>5. CASE kind \in A /\ kind = "clli"
    BY <1>4, <2>1, <2>3, <2>4, <2>5, Zenon DEF S
  <2>6. CASE kind \in A /\ kind = "mdcv"
    BY <1>4, <2>1, <2>3, <2>4, <2>6, Zenon DEF S
  <2>7. CASE kind \notin A
    BY <1>4, <2>1, <2>4, <2>7, Zenon DEF S
  <2> QED
    BY <2>2, <2>5, <2>6, <2>7
<1> QED
  BY <1>3, <1>5

\* The boxes go to a place of the sample entry.
LEMMA PlaceIs ==
  ASSUME NEW init, init.children \in Seq(Box)
  PROVE  Place(init) \in 0 .. Len(init.children)
<1> DEFINE cs == init.children
           colrs == {i \in DOMAIN cs : cs[i].kind = "colr"}
<1>1. Len(cs) \in Nat /\ DOMAIN cs = 1 .. Len(cs)
  BY LenProperties
<1>2. CASE colrs = {}
  BY <1>1, <1>2 DEF Place
<1>3. CASE colrs # {}
  <2>1. colrs \subseteq Nat /\ colrs \subseteq 1 .. Len(cs)
    BY <1>1
  <2>2. \E i \in colrs : \A j \in colrs : i <= j
    <3> HIDE DEF colrs
    <3> QED
      BY <1>3, <2>1, LeastNumber
  <2>3. Place(init) = CHOOSE i \in colrs : \A j \in colrs : i <= j
    BY <1>3, Zenon DEF Place
  <2>4. Place(init) \in colrs
    <3> HIDE DEF colrs
    <3> QED
      BY <2>2, <2>3, Zenon
  <2> QED
    BY <1>1, <2>1, <2>4
<1> QED
  BY <1>2, <1>3

\* A kind is held where there is a box of it.
LEMMA HeldIs ==
  ASSUME NEW init, init.children \in Seq(Box), NEW kind
  PROVE  /\ Of(init.children, {kind}) \in Seq(Box)
         /\ kind \in Held(init) <=> Len(Of(init.children, {kind})) >= 1
<1> DEFINE cs == init.children
           of == Of(cs, {kind})
<1>1. Len(cs) \in Nat /\ DOMAIN cs = 1 .. Len(cs)
  BY LenProperties
<1>2. kind \in Held(init) <=> \E i \in 1 .. Len(cs) : cs[i].kind \in {kind}
  BY <1>1 DEF Held
<1>3. of \in Seq(Box)
  BY OfTyped
<1>4. kind \notin Held(init) => of = <<>>
  BY <1>2, OfNoneOrSome, Zenon
<1>5. kind \in Held(init) => Len(of) >= 1
  BY <1>2, OfNoneOrSome, Zenon
<1>6. Len(<<>>) = 0
  OBVIOUS
<1> HIDE DEF of
<1>7. kind \in Held(init) <=> Len(of) >= 1
  BY <1>4, <1>5, <1>6
<1> QED
  BY <1>3, <1>7 DEF of

\* The sample entry after the insert: of any kinds, what there was before the
\* place, what was missing, what there was after it.
LEMMA InsertedOf ==
  ASSUME NEW init, IsInit(init), NEW W, W \subseteq Kinds
  PROVE  LET A == W \ Held(init)
             after == Inserted(init, Both(W))
         IN /\ Missing(init, Both(W)) = Both(A)
            /\ after.children \in Seq(Box)
            /\ SizeOf(after.children) = SizeOf(init.children) + SizeOf(Both(A)) /\ SizeOf(Both(A)) \in Nat
            /\ SizeOf(init.children) \in Nat
            /\ \A K : A \cap K = {} => Of(after.children, K) = Of(init.children, K)
            /\ \A kind : Len(Of(after.children, {kind})) =
                           Len(Of(init.children, {kind})) + (IF kind \in A THEN 1 ELSE 0)
<1> DEFINE A == W \ Held(init)
           after == Inserted(init, Both(W))
           cs == init.children
           at == Place(init)
           l == SubSeq(cs, 1, at)
           r == SubSeq(cs, at + 1, Len(cs))
           b == Both(A)
<1>1. cs \in Seq(Box)
  BY DEF IsInit
<1>2. at \in 0 .. Len(cs)
  BY <1>1, PlaceIs
<1>3. l \in Seq(Box) /\ r \in Seq(Box) /\ l \o r = cs
  BY <1>1, <1>2, CutAt
<1>4. Missing(init, Both(W)) = b
  <2>1. W \cap (Kinds \ Held(init)) = A
    OBVIOUS
  <2>2. Of(Both(W), Kinds \ Held(init)) = Both(W \cap (Kinds \ Held(init)))
    BY OfBoth, Zenon
  <2> QED
    BY <2>1, <2>2, Zenon DEF Missing
<1>5. A \subseteq Kinds
  OBVIOUS
<1>6. b \in Seq(Box) /\ \A kind : Len(Both(A \cap {kind})) = IF kind \in A THEN 1 ELSE 0
  BY <1>5, BothAre
<1>7. after.children = (l \o b) \o r
  BY <1>4, Zenon DEF Inserted
<1>8. \A K : Of(b, K) = Both(A \cap K)
  BY OfBoth, Zenon
<1>9. \A x \in Box : x.size \in Nat
  BY DEF Box
<1> HIDE DEF A, after, cs, at, l, r, b
<1>10. \A s, t \in Seq(Box) : s \o t \in Seq(Box) /\ Len(s \o t) = Len(s) + Len(t) /\ Len(s) \in Nat /\ Len(t) \in Nat
  BY ConcatProperties, LenProperties
<1>11. \A K : \A s \in Seq(Box) : \A t \in Seq(Box) :
         Of(s, K) \in Seq(Box) /\ Of(s \o t, K) = Of(s, K) \o Of(t, K)
  <2> TAKE K
  <2>1. \A s \in Seq(Box) : Of(s, K) \in Seq(Box)
    BY OfTyped
  <2>2. \A s \in Seq(Box) : \A t \in Seq(Box) : Of(s \o t, K) = Of(s, K) \o Of(t, K)
    BY OfJoined, Zenon
  <2> QED
    BY <2>1, <2>2, Zenon
<1>12. \A K : /\ Of(after.children, K) = (Of(l, K) \o Both(A \cap K)) \o Of(r, K)
              /\ Of(cs, K) = Of(l, K) \o Of(r, K)
              /\ Of(l, K) \in Seq(Box) /\ Of(r, K) \in Seq(Box) /\ Both(A \cap K) \in Seq(Box)
  <2> TAKE K
  <2>1. l \o b \in Seq(Box)
    BY <1>3, <1>6, <1>10, Zenon
  <2>2. Of((l \o b) \o r, K) = Of(l \o b, K) \o Of(r, K) /\ Of(l \o b, K) = Of(l, K) \o Of(b, K)
    BY <1>3, <1>6, <1>11, <2>1, Zenon
  <2>3. Of(cs, K) = Of(l, K) \o Of(r, K) /\ Of(l, K) \in Seq(Box) /\ Of(r, K) \in Seq(Box) /\ Of(b, K) \in Seq(Box)
    BY <1>3, <1>6, <1>11, Zenon
  <2> QED
    BY <1>7, <1>8, <2>2, <2>3, Zenon
<1>13. after.children \in Seq(Box)
  <2>1. l \o b \in Seq(Box)
    BY <1>3, <1>6, <1>10, Zenon
  <2> QED
    BY <1>3, <1>7, <1>10, <2>1, Zenon
<1>14. SizeOf(after.children) = SizeOf(cs) + SizeOf(b) /\ SizeOf(b) \in Nat /\ SizeOf(cs) \in Nat
  <2>1. l \o b \in Seq(Box)
    BY <1>3, <1>6, <1>10, Zenon
  <2>2. SizeOf((l \o b) \o r) = SizeOf(l \o b) + SizeOf(r)
    BY <1>3, <1>9, <2>1, SizesAdd
  <2>3. SizeOf(l \o b) = SizeOf(l) + SizeOf(b) /\ SizeOf(l) \in Nat /\ SizeOf(b) \in Nat
    BY <1>3, <1>6, <1>9, SizesAdd
  <2>4. SizeOf(l \o r) = SizeOf(l) + SizeOf(r) /\ SizeOf(r) \in Nat
    BY <1>3, <1>9, SizesAdd
  <2>5. SizeOf(after.children) = SizeOf((l \o b) \o r) /\ SizeOf(cs) = SizeOf(l \o r)
    BY <1>3, <1>7, Zenon
  <2> QED
    BY <2>2, <2>3, <2>4, <2>5
<1>15. \A K : A \cap K = {} => Of(after.children, K) = Of(cs, K)
  <2> TAKE K
  <2>1. HAVE A \cap K = {}
  <2>2. Both(A \cap K) = <<>>
    <3>1. "clli" \notin A \cap K /\ "mdcv" \notin A \cap K
      BY <2>1
    <3>2. <<>> \o <<>> = <<>>
      OBVIOUS
    <3> QED
      BY <3>1, <3>2, Zenon DEF Both
  <2>3. Of(l, K) \o <<>> = Of(l, K)
    BY <1>12, ConcatEmptySeq, Zenon
  <2> QED
    BY <1>12, <2>2, <2>3, Zenon
<1>16. ASSUME NEW kind
       PROVE  Len(Of(after.children, {kind})) = Len(Of(cs, {kind})) + (IF kind \in A THEN 1 ELSE 0)
  <2> DEFINE x == Of(l, {kind})
             y == Both(A \cap {kind})
             z == Of(r, {kind})
  <2>1. x \in Seq(Box) /\ y \in Seq(Box) /\ z \in Seq(Box)
    BY <1>12
  <2>2. Of(after.children, {kind}) = (x \o y) \o z /\ Of(cs, {kind}) = x \o z
    BY <1>12, Zenon
  <2>3. Len(y) = IF kind \in A THEN 1 ELSE 0
    BY <1>6
  <2> HIDE DEF x, y, z
  <2>4. x \o y \in Seq(Box) /\ Len(x \o y) = Len(x) + Len(y) /\ Len(x \o z) = Len(x) + Len(z)
        /\ Len(x) \in Nat /\ Len(z) \in Nat
    BY <1>10, <2>1, Zenon
  <2>5. Len((x \o y) \o z) = Len(x \o y) + Len(z)
    BY <1>10, <2>1, <2>4, Zenon
  <2>6. Len(Of(after.children, {kind})) = Len(x) + Len(y) + Len(z) /\ Len(Of(cs, {kind})) = Len(x) + Len(z)
    BY <2>2, <2>4, <2>5, Zenon
  <2> QED
    BY <2>3, <2>4, <2>6
<1> QED
  BY <1>4, <1>13, <1>14, <1>15, <1>16, Zenon DEF A, after, cs, b

\* The boxes of an init segment that takes more still add up.
LEMMA SizesHold ==
  ASSUME NEW init, IsInit(init), AddsUp(init), NEW W, W \subseteq Kinds
  PROVE  AddsUp(Inserted(init, Both(W)))
<1> DEFINE A == W \ Held(init)
           after == Inserted(init, Both(W))
           by == SizeOf(Both(A))
           ls == init.levels
           Own(levels) == [k \in DOMAIN levels |-> [size |-> levels[k].header + levels[k].before + levels[k].after]]
           Rest(k) == SizeOf(SubSeq(Own(ls), k, Len(Own(ls))))
<1>1. Missing(init, Both(W)) = Both(A) /\ by \in Nat /\ SizeOf(init.children) \in Nat
      /\ SizeOf(after.children) = SizeOf(init.children) + by
  BY InsertedOf, Zenon
<1>2. after.levels = [k \in DOMAIN ls |-> Grown(ls[k], by)]
  BY <1>1, Zenon DEF Inserted
<1>3. PICK n \in Nat : DOMAIN ls = 1 .. n
  BY DEF IsInit
<1>4. \A k \in DOMAIN ls : IsLevel(ls[k])
  BY DEF IsInit
<1>5. \A l : IsLevel(l) => /\ Grown(l, by).header = l.header /\ Grown(l, by).before = l.before
                           /\ Grown(l, by).after = l.after
                           /\ Grown(l, by).declared = IF l.declared = 0 THEN 0 ELSE l.declared + by
  <2> SUFFICES ASSUME NEW l, IsLevel(l)
               PROVE  /\ Grown(l, by).header = l.header /\ Grown(l, by).before = l.before
                      /\ Grown(l, by).after = l.after
                      /\ Grown(l, by).declared = IF l.declared = 0 THEN 0 ELSE l.declared + by
    OBVIOUS
  <2> HIDE DEF by
  <2>1. PICK h \in Nat, d \in Nat, b \in Nat, a \in Nat : l = [header |-> h, declared |-> d, before |-> b, after |-> a]
    BY Zenon DEF IsLevel
  <2> QED
    BY <2>1 DEF Grown
<1> DEFINE ls2 == after.levels
<1>6. DOMAIN ls2 = DOMAIN ls /\ \A k \in DOMAIN ls : ls2[k] = Grown(ls[k], by)
  BY <1>2, Zenon
<1> HIDE DEF after, by, A
<1>7. \A k \in DOMAIN ls : /\ ls2[k].header = ls[k].header /\ ls2[k].before = ls[k].before
                           /\ ls2[k].after = ls[k].after
                           /\ ls2[k].declared = IF ls[k].declared = 0 THEN 0 ELSE ls[k].declared + by
  BY <1>4, <1>5, <1>6, Zenon
<1>8. Own(ls2) = Own(ls)
  BY <1>6, <1>7
<1>9. \A k : RealSize(init, k) = Rest(k) + SizeOf(init.children)
  BY Zenon DEF RealSize
<1>10. \A k : RealSize(after, k) = Rest(k) + SizeOf(after.children)
  <2>1. \A k : RealSize(after, k) = SizeOf(SubSeq(Own(ls2), k, Len(Own(ls2)))) + SizeOf(after.children)
    BY Zenon DEF RealSize
  <2> HIDE DEF Own, ls2
  <2> QED
    BY <1>8, <2>1, Zenon
<1>11. \A k \in DOMAIN ls : Rest(k) \in Nat
  <2> SUFFICES ASSUME NEW k \in DOMAIN ls  PROVE Rest(k) \in Nat
    OBVIOUS
  <2> DEFINE S == [size : Nat]
             own == Own(ls)
  <2>1. own \in [1 .. n -> S]
    <3>1. \A i \in DOMAIN ls : ls[i].header \in Nat /\ ls[i].before \in Nat /\ ls[i].after \in Nat
      BY <1>4, Zenon DEF IsLevel
    <3>2. \A i \in DOMAIN ls : ls[i].header + ls[i].before + ls[i].after \in Nat
      BY <3>1
    <3> QED
      BY <1>3, <3>2
  <2> HIDE DEF own, S
  <2>2. Len(own) = n /\ \A i \in 1 .. n : own[i] \in S
    BY <2>1
  <2>3. \A i \in k .. n : own[i] \in S
    BY <1>3, <2>2
  <2>4. SubSeq(own, k, Len(own)) \in Seq(S)
    BY <1>3, <2>2, <2>3, SubSeqProperties
  <2>5. \A x \in S : x.size \in Nat
    BY DEF S
  <2>6. SizeOf(SubSeq(own, k, Len(own))) \in Nat
    BY <2>4, <2>5, SizesAdd
  <2> QED
    BY <2>6 DEF own
<1>12. \A k \in DOMAIN ls : ls[k].declared \in Nat
  BY <1>4, Zenon DEF IsLevel
<1> HIDE DEF Own, Rest, ls2
<1>13. ASSUME NEW k \in DOMAIN ls
       PROVE  IF ls2[k].declared = 0 THEN \A j \in DOMAIN ls2 : j = k - 1 => ls2[j].after = 0
              ELSE ls2[k].declared = RealSize(after, k)
  <2>1. IF ls[k].declared = 0 THEN \A j \in DOMAIN ls : j = k - 1 => ls[j].after = 0
        ELSE ls[k].declared = RealSize(init, k)
    BY DEF AddsUp
  <2>2. CASE ls[k].declared = 0
    BY <1>6, <1>7, <2>1, <2>2
  <2>3. CASE ls[k].declared # 0
    <3>1. ls[k].declared = Rest(k) + SizeOf(init.children) /\ ls[k].declared + by # 0
      BY <1>1, <1>9, <1>12, <2>1, <2>3
    <3>2. ls2[k].declared = ls[k].declared + by
      BY <1>7, <2>3
    <3>3. RealSize(after, k) = Rest(k) + SizeOf(after.children)
      BY <1>10
    <3> QED
      BY <1>1, <1>11, <3>1, <3>2, <3>3
  <2> QED
    BY <2>2, <2>3
<1> QED
  BY <1>6, <1>13, Zenon DEF AddsUp, after, ls2

BoxesTold(before, after, boxes, found) ==
  LET times(init, kind) == Len(Of(init.children, {kind}))
      other(init) == Of(init.children, Held(init) \ Kinds)
  IN /\ AddsUp(after)
     /\ other(after) = other(before)
     /\ IF Takes(before, boxes)
        THEN /\ \A kind \in found : times(after, kind) = Max({1, times(before, kind)})
             /\ WriteInto(after, boxes) = after
        ELSE after = before

\* A level that has grown grows by nothing more.
LEMMA GrownOnce ==
  ASSUME NEW l, IsLevel(l), NEW s \in Nat
  PROVE  Grown(Grown(l, s), 0) = Grown(l, s)
<1>1. PICK h \in Nat, d \in Nat, b \in Nat, a \in Nat : l = [header |-> h, declared |-> d, before |-> b, after |-> a]
  BY Zenon DEF IsLevel
<1> DEFINE L(x) == [header |-> h, declared |-> x, before |-> b, after |-> a]
<1>2. \A x, y : [L(x) EXCEPT !.declared = y] = L(y)
  OBVIOUS
<1>3. \A x : L(x).declared = x
  OBVIOUS
<1>4. d + 0 = d /\ (d + s) + 0 = d + s
  OBVIOUS
<1> HIDE DEF L
<1>5. \A x, y : Grown(L(x), y) = IF x = 0 THEN L(x) ELSE L(x + y)
  BY <1>2, <1>3, Zenon DEF Grown
<1>6. Grown(L(d), s) = (IF d = 0 THEN L(d) ELSE L(d + s))
  BY <1>5
<1>7. CASE d = 0
  BY <1>1, <1>5, <1>7, Zenon DEF L
<1>8. CASE d # 0
  <2>1. Grown(l, s) = L(d + s)
    BY <1>1, <1>6, <1>8, Zenon DEF L
  <2>2. Grown(L(d + s), 0) = L(d + s)
    BY <1>4, <1>5, Zenon
  <2> QED
    BY <2>1, <2>2, Zenon
<1> QED
  BY <1>7, <1>8

\* What an init segment takes is there once, beside what it held; it takes
\* nothing more the next time.
LEMMA BoxesHold ==
  ASSUME NEW init, IsInit(init), AddsUp(init), NEW W, W \subseteq Kinds
  PROVE  BoxesTold(init, WriteInto(init, Both(W)), Both(W), W)
<1>1. CASE ~ Takes(init, Both(W))
  <2>1. WriteInto(init, Both(W)) = init
    BY <1>1, Zenon DEF WriteInto
  <2> QED
    BY <1>1, <2>1, Zenon DEF BoxesTold
<1>2. CASE Takes(init, Both(W))
  <2> DEFINE A == W \ Held(init)
             after == Inserted(init, Both(W))
             times(i, kind) == Len(Of(i.children, {kind}))
  <2>1. /\ after.children \in Seq(Box)
        /\ \A K : A \cap K = {} => Of(after.children, K) = Of(init.children, K)
        /\ \A kind : times(after, kind) = times(init, kind) + (IF kind \in A THEN 1 ELSE 0)
    BY InsertedOf, Zenon
  <2>2. init.children \in Seq(Box)
    BY DEF IsInit
  <2>3. AddsUp(after)
    BY SizesHold
  <2>4. WriteInto(init, Both(W)) = after
    BY <1>2, Zenon DEF WriteInto
  <2>5. \A kind : times(init, kind) \in Nat /\ (kind \in Held(init) <=> times(init, kind) >= 1)
    <3> TAKE kind
    <3>1. Of(init.children, {kind}) \in Seq(Box) /\ (kind \in Held(init) <=> Len(Of(init.children, {kind})) >= 1)
      BY <2>2, HeldIs
    <3> QED
      BY <3>1
  <2>6. \A kind : kind \in Held(after) <=> times(after, kind) >= 1
    <3> HIDE DEF after
    <3> QED
      BY <2>1, HeldIs
  <2>7. \A kind : kind \in A <=> kind \in W /\ kind \notin Held(init)
    OBVIOUS
  <2>8. after = [levels |-> after.levels, children |-> after.children, media |-> after.media, one |-> after.one]
        /\ after.media = init.media /\ after.one = init.one
    BY DEF Inserted
  <2>9. \A k \in DOMAIN init.levels : IsLevel(init.levels[k])
    BY DEF IsInit
  <2>10. /\ DOMAIN after.levels = DOMAIN init.levels
         /\ after.levels = [k \in DOMAIN init.levels |-> after.levels[k]]
         /\ \E s \in Nat : \A k \in DOMAIN init.levels : after.levels[k] = Grown(init.levels[k], s)
    <3>1. SizeOf(Missing(init, Both(W))) \in Nat
      BY InsertedOf, Zenon
    <3>2. after.levels = [k \in DOMAIN init.levels |-> Grown(init.levels[k], SizeOf(Missing(init, Both(W))))]
      BY Zenon DEF Inserted
    <3> HIDE DEF after
    <3> QED
      BY <3>1, <3>2
  <2> HIDE DEF times, A
  <2>11. \A kind : kind \in Held(after) <=> kind \in Held(init) \/ kind \in A
    <3> HIDE DEF after
    <3> QED
      BY <2>1, <2>5, <2>6
  <2> DEFINE other(i) == Of(i.children, Held(i) \ Kinds)
  <2>12. other(after) = other(init)
    <3>1. Held(after) \ Kinds = Held(init) \ Kinds
      BY <2>7, <2>11
    <3>2. A \cap (Held(init) \ Kinds) = {}
      BY <2>7
    <3> HIDE DEF after
    <3> QED
      BY <2>1, <3>1, <3>2, Zenon
  <2>13. \A kind \in W : times(after, kind) = Max({1, times(init, kind)})
    <3> SUFFICES ASSUME NEW kind \in W  PROVE times(after, kind) = Max({1, times(init, kind)})
      OBVIOUS
    <3> DEFINE t == times(init, kind)
    <3>1. t \in Nat
      BY <2>5
    <3>2. times(after, kind) = IF t = 0 THEN 1 ELSE t
      BY <2>1, <2>5, <2>7
    <3> HIDE DEF t
    <3>3. Max({1, t}) = IF t = 0 THEN 1 ELSE t
      BY <3>1 DEF Max
    <3> QED
      BY <3>2, <3>3 DEF t
  <2>14. WriteInto(after, Both(W)) = after
    <3> DEFINE twice == Inserted(after, Both(W))
               cs == after.children
               at == Place(after)
    <3> HIDE DEF after
    <3>1. Missing(after, Both(W)) = <<>>
      <4>1. "clli" \notin W \cap (Kinds \ Held(after)) /\ "mdcv" \notin W \cap (Kinds \ Held(after))
        BY <2>7, <2>11
      <4>2. Of(Both(W), Kinds \ Held(after)) = Both(W \cap (Kinds \ Held(after)))
        BY OfBoth, Zenon
      <4>3. <<>> \o <<>> = <<>>
        OBVIOUS
      <4> QED
        BY <4>1, <4>2, <4>3, Zenon DEF Missing, Both
    <3>2. SizeOf(<<>>) = 0
      <4>1. [size |-> 0].size \in Nat
        OBVIOUS
      <4> QED
        BY <4>1, SizeOfOne
    <3>3. \A k \in DOMAIN after.levels : Grown(after.levels[k], 0) = after.levels[k]
      <4> SUFFICES ASSUME NEW k \in DOMAIN after.levels  PROVE Grown(after.levels[k], 0) = after.levels[k]
        OBVIOUS
      <4>1. PICK s \in Nat : after.levels[k] = Grown(init.levels[k], s)
        BY <2>10
      <4>2. IsLevel(init.levels[k])
        BY <2>9, <2>10, Zenon
      <4> QED
        BY <4>1, <4>2, GrownOnce, Zenon
    <3>4. twice.levels = after.levels
      <4>1. twice.levels = [k \in DOMAIN after.levels |-> Grown(after.levels[k], 0)]
        BY <3>1, <3>2, Zenon DEF Inserted
      <4> HIDE DEF twice
      <4> QED
        BY <2>10, <3>3, <4>1, Zenon
    <3>5. twice.children = cs
      <4>1. twice.children = (SubSeq(cs, 1, at) \o <<>>) \o SubSeq(cs, at + 1, Len(cs))
        BY <3>1, Zenon DEF Inserted
      <4>2. at \in 0 .. Len(cs)
        BY <2>1, PlaceIs
      <4>3. /\ SubSeq(cs, 1, at) \in Seq(Box) /\ SubSeq(cs, 1, at) \o SubSeq(cs, at + 1, Len(cs)) = cs
        BY <2>1, <4>2, CutAt
      <4>4. SubSeq(cs, 1, at) \o <<>> = SubSeq(cs, 1, at)
        BY <4>3, ConcatEmptySeq, Zenon
      <4> QED
        BY <4>1, <4>3, <4>4, Zenon
    <3>6. twice = [levels |-> twice.levels, children |-> twice.children, media |-> after.media, one |-> after.one]
      BY Zenon DEF Inserted
    <3> HIDE DEF twice
    <3>7. twice = after
      BY <2>8, <3>4, <3>5, <3>6, Zenon
    <3> QED
      BY <3>7, Zenon DEF WriteInto, twice
  <2> QED
    BY <1>2, <2>3, <2>4, <2>12, <2>13, <2>14, Zenon DEF BoxesTold, times, other
<1> QED
  BY <1>1, <1>2

\* A side data list of the two kinds, of which some can be read, says those.
Sayings(kinds) == [i \in 1 .. 2 |-> IF <<"mdcv", "clli">>[i] \in kinds THEN Readable[i] ELSE Unreadable[i]]

\* A kind is found in the side data just where it is told readably.
LEMMA ToldSays ==
  ASSUME NEW kinds, NEW kind \in Kinds
  PROVE  IsSideData(Sayings(kinds)) /\ (FromSideData(Sayings(kinds))[kind] = {} <=> kind \notin kinds)
<1> DEFINE t == Sayings(kinds)
           good == SideData("mdcv", <<0, 1>>, <<0, 1>>, <<>>)
           fine == SideData("clli", <<>>, <<>>, <<0, 0>>)
           bad == SideData("mdcv", <<1, 0>>, <<0, 1>>, <<>>)
           poor == SideData("clli", <<>>, <<>>, <<-1, 0>>)
<1>1. DOMAIN t = 1 .. 2 /\ t[1] = (IF "mdcv" \in kinds THEN good ELSE bad)
      /\ t[2] = (IF "clli" \in kinds THEN fine ELSE poor)
  <2>1. <<"mdcv", "clli">>[1] = "mdcv" /\ <<"mdcv", "clli">>[2] = "clli"
    OBVIOUS
  <2>2. Readable[1] = good /\ Readable[2] = fine /\ Unreadable[1] = bad /\ Unreadable[2] = poor
    <3> HIDE DEF good, fine, bad, poor
    <3>1. Readable = <<good, fine>> /\ Unreadable = <<bad, poor>>
      BY Zenon DEF Readable, Unreadable, good, fine, bad, poor
    <3> QED
      BY <3>1
  <2>3. 1 \in 1 .. 2 /\ 2 \in 1 .. 2
    OBVIOUS
  <2> QED
    BY <2>1, <2>2, <2>3, Zenon DEF Sayings
<1>2. /\ IsEntry(good) /\ IsEntry(bad) /\ good.kind = "mdcv" /\ bad.kind = "mdcv"
      /\ IsEntry(fine) /\ IsEntry(poor) /\ fine.kind = "clli" /\ poor.kind = "clli"
  <2>1. IsValue(<<0, 1>>) /\ IsValue(<<1, 0>>)
    <3>1. 0 \in Int /\ 1 \in Int /\ 0 \in Nat /\ 1 \in Nat
      OBVIOUS
    <3> QED
      BY <3>1, Zenon DEF IsValue
  <2>2. (\E a, b \in Int : <<0, 0>> = <<a, b>>) /\ (\E a, b \in Int : <<-1, 0>> = <<a, b>>)
    <3>1. 0 \in Int /\ -1 \in Int
      OBVIOUS
    <3> QED
      BY <3>1, Zenon
  <2> QED
    BY <2>1, <2>2, Zenon DEF IsEntry, SideData
<1>3. (\E v \in Fields("mdcv") : Writes(good, v)) /\ (\E v \in Fields("clli") : Writes(fine, v))
  <2>1. <<0, 0>> \in Fields("mdcv") /\ <<0, 0>> \in Fields("clli")
    <3>1. 0 \in 0 .. MaxChroma /\ 0 \in 0 .. MaxLuma /\ 0 \in 0 .. MaxLight
      BY PlansAssumption
    <3> QED
      BY <3>1 DEF Fields
  <2>2. \A u \in Nat : Near(0, <<0, 1>>, u)
    BY DEF Near
  <2>3. Writes(good, <<0, 0>>)
    <3>1. good.chroma = <<0, 1>> /\ good.luma = <<0, 1>> /\ good.kind = "mdcv" /\ <<0, 0>>[1] = 0 /\ <<0, 0>>[2] = 0
      BY DEF SideData
    <3>2. CHROMA_UNITS \in Nat /\ LUMA_UNITS \in Nat
      BY PlansAssumption
    <3> HIDE DEF good
    <3> QED
      BY <2>2, <3>1, <3>2, Zenon DEF Writes
  <2>4. Writes(fine, <<0, 0>>)
    BY DEF Writes, SideData
  <2> QED
    BY <2>1, <2>3, <2>4, Zenon
<1>4. (\A v : ~ Writes(bad, v)) /\ (\A v \in Fields("clli") : ~ Writes(poor, v))
  <2>1. \A n, u : ~ Near(n, <<1, 0>>, u)
    BY DEF Near
  <2>2. \A v : Writes(bad, v) => Near(v[1], <<1, 0>>, CHROMA_UNITS)
    BY DEF Writes, SideData
  <2>3. \A v : Writes(poor, v) => v = <<-1, 0>>
    BY DEF Writes, SideData
  <2>4. <<-1, 0>> \notin Fields("clli")
    <3>1. \A v \in Fields("clli") : v[1] \in 0 .. MaxLight
      BY DEF Fields
    <3>2. <<-1, 0>>[1] = -1 /\ -1 \notin 0 .. MaxLight
      BY PlansAssumption
    <3> QED
      BY <3>1, <3>2
  <2> QED
    BY <2>1, <2>2, <2>3, <2>4
<1> HIDE DEF t, good, fine, bad, poor
<1>5. IsSideData(t)
  BY <1>1, <1>2 DEF IsSideData
<1>6. Saying(t, kind) = {} <=> kind \notin kinds
  <2>1. \A i \in DOMAIN t : i = 1 \/ i = 2
    BY <1>1
  <2>2. 1 \in DOMAIN t /\ 2 \in DOMAIN t
    BY <1>1
  <2>3. CASE kind = "mdcv"
    <3>1. \A i \in DOMAIN t : i \in Saying(t, kind) <=> i = 1 /\ "mdcv" \in kinds
      BY <1>1, <1>2, <1>3, <1>4, <2>1, <2>2, <2>3 DEF Saying
    <3>2. Saying(t, kind) \subseteq DOMAIN t
      BY DEF Saying
    <3> QED
      BY <2>2, <2>3, <3>1, <3>2
  <2>4. CASE kind = "clli"
    <3>1. \A i \in DOMAIN t : i \in Saying(t, kind) <=> i = 2 /\ "clli" \in kinds
      BY <1>1, <1>2, <1>3, <1>4, <2>1, <2>2, <2>4 DEF Saying
    <3>2. Saying(t, kind) \subseteq DOMAIN t
      BY DEF Saying
    <3> QED
      BY <2>2, <2>4, <3>1, <3>2
  <2> QED
    BY <2>3, <2>4 DEF Kinds
<1>7. FromSideData(t)[kind] = {} <=> Saying(t, kind) = {}
  BY <1>5, ListSays, Zenon
<1> QED
  BY <1>5, <1>6, <1>7 DEF t

\* The boxes of what a stream and its frames say are those of the kinds said.
LEMMA BoxesToWrite ==
  ASSUME NEW stream, NEW frames, stream \subseteq Kinds, frames \subseteq Kinds
  PROVE  BoxesOf(OfOriginal(Sayings(stream), <<Sayings(frames)>>)) = Both(stream \cup frames)
<1> DEFINE found == OfOriginal(Sayings(stream), <<Sayings(frames)>>)
<1>1. ASSUME NEW kind \in Kinds  PROVE found[kind] # {} <=> kind \in stream \cup frames
  <2>1. IsSideData(Sayings(frames))
    BY ToldSays
  <2>2. FirstFrames(<<Sayings(frames)>>)[kind] = FromSideData(FlattenSeq(<<Sayings(frames)>>))[kind]
        /\ FlattenSeq(<<Sayings(frames)>>) = Sayings(frames)
    <3> DEFINE f == Sayings(frames)
               fs == <<f>>
    <3>1. fs = <<>> \/ \E g : fs = <<g>> /\ IsSideData(g)
      BY <2>1
    <3>2. fs = <<f>>
      OBVIOUS
    <3> HIDE DEF fs
    <3>3. FirstFrames(fs)[kind] = FromSideData(FlattenSeq(fs))[kind] /\ FlattenSeq(fs) = f
      BY <3>1, <3>2, FramesSay
    <3> QED
      BY <3>3 DEF fs
  <2>3. found[kind] = IF FromSideData(Sayings(stream))[kind] # {} THEN FromSideData(Sayings(stream))[kind]
                      ELSE FirstFrames(<<Sayings(frames)>>)[kind]
    BY OriginalSays, Zenon
  <2>4. /\ FromSideData(Sayings(stream))[kind] = {} <=> kind \notin stream
        /\ FromSideData(Sayings(frames))[kind] = {} <=> kind \notin frames
    BY ToldSays
  <2> HIDE DEF found
  <2> QED
    BY <2>2, <2>3, <2>4
<1> HIDE DEF found
<1>2. {kind \in Kinds : found[kind] # {}} = stream \cup frames
  BY <1>1
<1>3. BoxesOf(found) = Of(<<Clli, Mdcv>>, stream \cup frames)
  BY <1>2, Zenon DEF BoxesOf, Clli, Mdcv
<1> QED
  BY <1>3, OfBoth, Zenon DEF found

\* The sizes of the enumerated init segments are numbers.
LEMMA RealSizeIs ==
  ASSUME NEW init, NEW n \in Nat, DOMAIN init.levels = 1 .. n, init.children \in Seq(Box),
         \A k \in 1 .. n :
           init.levels[k].header \in Nat /\ init.levels[k].before \in Nat /\ init.levels[k].after \in Nat,
         NEW k \in 1 .. n
  PROVE  RealSize(init, k) \in Nat
<1> DEFINE ls == init.levels
           S == [size : Nat]
           own == [i \in DOMAIN ls |-> [size |-> ls[i].header + ls[i].before + ls[i].after]]
<1>1. own \in [1 .. n -> S]
  <2>1. \A i \in DOMAIN ls : ls[i].header + ls[i].before + ls[i].after \in Nat
    OBVIOUS
  <2> QED
    BY <2>1
<1>2. \A x \in S : x.size \in Nat
  OBVIOUS
<1>3. RealSize(init, k) = SizeOf(SubSeq(own, k, Len(own))) + SizeOf(init.children)
  BY Zenon DEF RealSize
<1> HIDE DEF own, S
<1>4. Len(own) = n /\ \A i \in k .. n : own[i] \in S
  BY <1>1
<1>5. SubSeq(own, k, Len(own)) \in Seq(S)
  BY <1>4, SubSeqProperties
<1>6. SizeOf(SubSeq(own, k, Len(own))) \in Nat
  BY <1>2, <1>5, SizesAdd
<1>7. SizeOf(init.children) \in Nat
  <2>1. \A x \in Box : x.size \in Nat
    BY DEF Box
  <2> QED
    BY <2>1, SizesAdd
<1> QED
  BY <1>3, <1>6, <1>7

\* The init segments that are written into are of that shape.
LEMMA DeclaredIs ==
  ASSUME NEW s \in InitSegments
  PROVE  IsInit(Declared(s))
<1> DEFINE L == {l \in [header : {8, 16}, declared : {0, 1}, before : InitSizes, after : InitSizes] :
                   l.header = 16 => l.declared # 0}
           C == [kind : {"hvcC", "colr", "mdcv"}, size : {32}]
<1>1. PICK ls \in [1 .. 2 -> L], cs \in UpTo(2, C), media \in BOOLEAN :
        s = [levels |-> ls, children |-> cs, media |-> media, one |-> TRUE]
  BY DEF InitSegments
<1>2. cs \in Seq(Box)
  <2>1. PICK m \in 0 .. 2 : cs \in [1 .. m -> C]
    BY DEF UpTo
  <2>2. \A c \in C : c \in Box
    BY DEF Box
  <2> HIDE DEF C
  <2>3. cs \in [1 .. m -> Box]
    BY <2>1, <2>2
  <2> QED
    BY <2>3
<1>3. \A l \in L : \E h \in Nat, d \in Nat, b \in Nat, a \in Nat :
        l = [header |-> h, declared |-> d, before |-> b, after |-> a]
  <2> SUFFICES ASSUME NEW l \in L
               PROVE  \E h \in Nat, d \in Nat, b \in Nat, a \in Nat :
                        l = [header |-> h, declared |-> d, before |-> b, after |-> a]
    OBVIOUS
  <2>1. l = [header |-> l.header, declared |-> l.declared, before |-> l.before, after |-> l.after]
    OBVIOUS
  <2>2. l.header \in {8, 16} /\ l.declared \in {0, 1} /\ l.before \in InitSizes /\ l.after \in InitSizes
    OBVIOUS
  <2>3. l.header \in Nat /\ l.declared \in Nat /\ l.before \in Nat /\ l.after \in Nat
    <3>1. InitSizes \subseteq Nat
      BY PlansAssumption
    <3>2. (\A x \in {8, 16} : x \in Nat) /\ (\A x \in {0, 1} : x \in Nat)
      OBVIOUS
    <3> HIDE DEF L, C
    <3> QED
      BY <2>2, <3>1, <3>2, Zenon
  <2> HIDE DEF L
  <2> QED
    BY <2>1, <2>3, Zenon
<1> HIDE DEF L
<1>4. s.levels = ls /\ s.children = cs /\ DOMAIN ls = 1 .. 2 /\ 2 \in Nat /\ \A k \in 1 .. 2 : ls[k] \in L
  BY <1>1
<1>5. \A k \in 1 .. 2 : ls[k].header \in Nat /\ ls[k].before \in Nat /\ ls[k].after \in Nat
  <2> SUFFICES ASSUME NEW k \in 1 .. 2  PROVE ls[k].header \in Nat /\ ls[k].before \in Nat /\ ls[k].after \in Nat
    OBVIOUS
  <2>1. PICK h \in Nat, d \in Nat, b \in Nat, a \in Nat :
          ls[k] = [header |-> h, declared |-> d, before |-> b, after |-> a]
    BY <1>3, <1>4, Zenon
  <2> QED
    BY <2>1
<1>6. \A k \in 1 .. 2 : RealSize(s, k) \in Nat
  BY <1>2, <1>4, <1>5, RealSizeIs
<1> DEFINE ls2 == [k \in DOMAIN ls |-> IF ls[k].declared = 0 THEN ls[k] ELSE [ls[k] EXCEPT !.declared = RealSize(s, k)]]
<1>7. Declared(s) = [levels |-> ls2, children |-> cs, media |-> media, one |-> TRUE]
  <2>1. \A u, v, w, y, x : [[levels |-> u, children |-> v, media |-> w, one |-> y] EXCEPT !.levels = x]
                 = [levels |-> x, children |-> v, media |-> w, one |-> y]
    OBVIOUS
  <2>2. Declared(s) = [s EXCEPT !.levels = ls2]
    BY <1>4, Zenon DEF Declared
  <2> HIDE DEF ls2
  <2> QED
    BY <1>1, <2>1, <2>2, Zenon
<1>8. \A k \in 1 .. 2 : IsLevel(ls2[k])
  <2> SUFFICES ASSUME NEW k \in 1 .. 2  PROVE IsLevel(ls2[k])
    OBVIOUS
  <2>1. PICK h \in Nat, d \in Nat, b \in Nat, a \in Nat :
          ls[k] = [header |-> h, declared |-> d, before |-> b, after |-> a]
    BY <1>3, <1>4, Zenon
  <2>2. \A x : [[header |-> h, declared |-> d, before |-> b, after |-> a] EXCEPT !.declared = x]
                 = [header |-> h, declared |-> x, before |-> b, after |-> a]
    OBVIOUS
  <2>3. ls2[k] = IF ls[k].declared = 0 THEN ls[k] ELSE [ls[k] EXCEPT !.declared = RealSize(s, k)]
    BY <1>4, Zenon
  <2>4. ls2[k] = [header |-> h, declared |-> d, before |-> b, after |-> a]
        \/ ls2[k] = [header |-> h, declared |-> RealSize(s, k), before |-> b, after |-> a]
    <3> HIDE DEF ls2
    <3> QED
      BY <2>1, <2>2, <2>3, Zenon
  <2>5. RealSize(s, k) \in Nat
    BY <1>6
  <2> HIDE DEF ls2
  <2> QED
    BY <2>4, <2>5 DEF IsLevel
<1>9. DOMAIN ls2 = 1 .. 2 /\ ls2 = [k \in 1 .. 2 |-> ls2[k]]
  <2>1. DOMAIN ls2 = 1 .. 2
    BY <1>4
  <2> QED
    BY <1>4, <2>1, Zenon
<1> HIDE DEF ls2
<1>10. DEFINE init == Declared(s)
<1>11. init.levels = ls2 /\ init.children = cs /\ init.media = media /\ init.one = TRUE
  BY <1>7
<1>12. init = [levels |-> init.levels, children |-> init.children, media |-> init.media, one |-> init.one]
  <2> HIDE DEF init
  <2> QED
    BY <1>7, <1>11 DEF init
<1> HIDE DEF init
<1> QED
  BY <1>2, <1>4, <1>8, <1>9, <1>11, <1>12, Zenon DEF IsInit, init

\* Each job of a write leaves boxes that add up.
LEMMA BoxesJob ==
  ASSUME WriteHdr10
  PROVE  BoxesAddUp'
<1> DEFINE Jobs(init, stream, frames) ==
             LET boxes == BoxesOf(OfOriginal(Sayings(stream), <<Sayings(frames)>>))
             IN [kind |-> "hdr10", found |-> stream \cup frames,
                 before |-> init, after |-> WriteInto(init, boxes), boxes |-> boxes]
<1>1. PICK init \in {i \in {Declared(s) : s \in InitSegments} : AddsUp(i)},
           stream \in SUBSET Kinds, frames \in SUBSET Kinds :
        job' = Jobs(init, stream, frames)
  BY Zenon DEF WriteHdr10, Sayings
<1>2. IsInit(init) /\ AddsUp(init)
  <2>1. PICK s \in InitSegments : init = Declared(s)
    BY <1>1
  <2> QED
    BY <2>1, DeclaredIs
<1> DEFINE W == stream \cup frames
           after == WriteInto(init, Both(W))
<1>3. job' = [kind |-> "hdr10", found |-> W, before |-> init, after |-> after, boxes |-> Both(W)]
  BY <1>1, BoxesToWrite, Zenon
<1>4. BoxesTold(init, after, Both(W), W)
  BY <1>2, BoxesHold
<1> HIDE DEF W, after
<1>5. job'.before = init /\ job'.after = after /\ job'.boxes = Both(W) /\ job'.found = W
  BY <1>3
<1> QED
  BY <1>4, <1>5, Zenon DEF BoxesAddUp, BoxesTold

\* The other jobs are none of the picture.
LEMMA OtherPictures ==
  ASSUME Next, ~ ReadHdr10, ~ CopyVideo, ~ WriteHdr10
  PROVE  job'.kind \notin {"metadata", "copy", "hdr10"}
BY PlanKinds, ReadingKinds, WritingKinds DEF Next, Reading

\* THEOREM: a player gets the picture as the source has it: its parameter
\* sets, and the metadata its colours are meant by, as the source says it,
\* in boxes whose sizes add up (_hevc_copy_args, of_original, insert_boxes).
THEOREM PictureAlwaysPlays == Spec => []PicturePlays
<1>1. Init => PicturePlays
  BY DEF Init, PicturePlays, BoxesAddUp, CopyReads, MetadataAsSaid
<1>2. PicturePlays /\ [Next]_job => PicturePlays'
  <2> SUFFICES ASSUME PicturePlays, [Next]_job  PROVE PicturePlays'
    OBVIOUS
  <2>1. CASE UNCHANGED job
    BY <2>1 DEF PicturePlays, BoxesAddUp, CopyReads, MetadataAsSaid
  <2>2. job'.kind # "metadata" => MetadataAsSaid'
    BY DEF MetadataAsSaid
  <2>3. job'.kind # "copy" => CopyReads'
    BY DEF CopyReads
  <2>4. job'.kind # "hdr10" => BoxesAddUp'
    BY DEF BoxesAddUp
  <2>5. CASE ReadHdr10
    <3>1. MetadataAsSaid' /\ job'.kind = "metadata"
      BY <2>5, MetadataJob, PlanKinds
    <3> QED
      BY <2>3, <2>4, <3>1 DEF PicturePlays
  <2>6. CASE CopyVideo
    <3>1. CopyReads' /\ job'.kind = "copy"
      BY <2>6, CopyJob, PlanKinds
    <3> QED
      BY <2>2, <2>4, <3>1 DEF PicturePlays
  <2>7. CASE WriteHdr10
    <3>1. BoxesAddUp' /\ job'.kind = "hdr10"
      BY <2>7, BoxesJob, PlanKinds
    <3> QED
      BY <2>2, <2>3, <3>1 DEF PicturePlays
  <2>8. CASE job'.kind \notin {"metadata", "copy", "hdr10"}
    BY <2>2, <2>3, <2>4, <2>8 DEF PicturePlays
  <2> QED
    BY <2>1, <2>5, <2>6, <2>7, <2>8, OtherPictures
<1> QED
  BY <1>1, <1>2, PTL DEF Spec
=============================================================================
