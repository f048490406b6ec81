---------------------------- MODULE ReadingsProofs ----------------------------
(***************************************************************************)
(* Theorems about what is read before a run and written after it, with the *)
(* facts of PlansProofs: a run works in its own folders, on what is there; *)
(* what is told of it is so; and the renditions of its audio play what     *)
(* they say.                                                               *)
(***************************************************************************)
EXTENDS PlansProofs

(***************************************************************************)
(* Where an event and its record send a run.                               *)
(***************************************************************************)

\* The inputs a handoff's rungs may become.
InputsOn(inbox, rungs) == {Input(FileOf(inbox, r), EncoderOf(r)) : r \in Range(rungs)}

\* The inputs of the rungs that are there are inputs of the rungs; with the
\* top rung there, it is their first.
LEMMA InputsHold ==
  ASSUME NEW R, NEW rungs \in Seq(R), NEW inbox, NEW there, Usable(inbox, rungs, there)
  PROVE  LET inputs == InputsOf(inbox, rungs, there)
         IN /\ inputs \in Seq(InputsOn(inbox, rungs)) /\ Len(inputs) >= 1
            /\ inputs[1] = Input(FileOf(inbox, rungs[1]), EncoderOf(rungs[1]))
<1> DEFINE N == Len(rungs)
           I == InputsOn(inbox, rungs)
           Item(n) == Input(FileOf(inbox, rungs[n]), EncoderOf(rungs[n]))
           Here(n) == FileOf(inbox, rungs[n]) \in there
           step == [n \in 1 .. N |-> [t \in Seq(I) |-> IF Here(n) THEN Append(t, Item(n)) ELSE t]]
           Good(f) == f = [n \in 0 .. N |->
                         IF n = 0 THEN <<>> ELSE IF Here(n) THEN Append(f[n - 1], Item(n)) ELSE f[n - 1]]
           some == CHOOSE f : Good(f)
<1>1. N \in Nat /\ N >= 1 /\ Here(1)
  BY DEF Usable
<1>2. \A n \in 1 .. N : Item(n) \in I
  <2>1. \A n \in 1 .. N : rungs[n] \in Range(rungs)
    BY DEF Range
  <2> QED
    BY <2>1 DEF InputsOn
<1>3. InputsOf(inbox, rungs, there) = some[N]
  BY Zenon DEF InputsOf
<1> HIDE DEF I, Item, Here
<1>4. step \in [1 .. N -> [Seq(I) -> Seq(I)]]
  <2>1. \A n \in 1 .. N : \A t \in Seq(I) : Append(t, Item(n)) \in Seq(I)
    BY <1>2
  <2> QED
    BY <2>1
<1>5. PICK g : Carries(g, N, Seq(I), <<>>, step)
  <2>1. <<>> \in Seq(I)
    OBVIOUS
  <2> HIDE DEF step, N
  <2> QED
    BY <1>1, <1>4, <2>1, CarriedOut
<1>6. Good(g)
  <2>1. g \in [0 .. N -> Seq(I)] /\ g[0] = <<>> /\ \A n \in 1 .. N : g[n] = step[n][g[n - 1]]
    BY <1>5, Zenon DEF Carries
  <2>2. \A n \in 1 .. N : \A t \in Seq(I) : step[n][t] = IF Here(n) THEN Append(t, Item(n)) ELSE t
    OBVIOUS
  <2> HIDE DEF N, step
  <2>3. \A n \in 1 .. N : g[n - 1] \in Seq(I)
    BY <1>1, <2>1
  <2>4. \A n \in 0 .. N : n = 0 \/ n \in 1 .. N
    BY <1>1
  <2>5. \A n \in 1 .. N : n # 0
    BY <1>1
  <2>6. \A n \in 0 .. N : g[n] = IF n = 0 THEN <<>> ELSE IF Here(n) THEN Append(g[n - 1], Item(n)) ELSE g[n - 1]
    BY <2>1, <2>2, <2>3, <2>4, <2>5, Zenon
  <2>7. DOMAIN g = 0 .. N /\ g = [n \in 0 .. N |-> g[n]]
    BY <2>1
  <2> QED
    BY <2>6, <2>7, Zenon
<1>7. Good(some)
  <2> HIDE DEF Good
  <2> QED
    BY <1>6
<1> HIDE DEF some, step
<1>8. some[0] = <<>> /\ \A n \in 1 .. N : some[n] = IF Here(n) THEN Append(some[n - 1], Item(n)) ELSE some[n - 1]
  <2>1. \A n \in 1 .. N : n \in 0 .. N /\ n # 0
    BY <1>1
  <2>2. 0 \in 0 .. N
    BY <1>1
  <2> HIDE DEF N
  <2> QED
    BY <1>7, <2>1, <2>2, Zenon
<1> HIDE DEF N, Good
<1> DEFINE Fits(t) == t \in Seq(I) /\ Len(t) >= 1 /\ t[1] = Item(1)
           bad == {m \in 1 .. N : ~ Fits(some[m])}
<1>9. Fits(some[1])
  <2>1. some[1] = Append(<<>>, Item(1)) /\ Item(1) \in I
    <3>1. 1 \in 1 .. N /\ 1 - 1 = 0
      BY <1>1
    <3>2. some[1] = IF Here(1) THEN Append(some[1 - 1], Item(1)) ELSE some[1 - 1]
      BY <1>8, <3>1, Zenon
    <3> QED
      BY <1>1, <1>2, <1>8, <3>1, <3>2, Zenon
  <2> QED
    BY <2>1
<1>10. ASSUME NEW t, Fits(t), NEW n \in 1 .. N  PROVE Fits(Append(t, Item(n)))
  <2>1. Item(n) \in I
    BY <1>2
  <2> QED
    BY <1>10, <2>1
<1> HIDE DEF Fits
<1>11. bad = {}
  <2> SUFFICES ASSUME bad # {}  PROVE FALSE
    OBVIOUS
  <2>1. bad \subseteq Nat
    OBVIOUS
  <2>2. PICK m \in bad : \A k \in bad : m <= k
    <3> HIDE DEF bad
    <3> QED
      BY <2>1, LeastNumber
  <2>3. m # 1
    BY <1>9
  <2>4. m \in 1 .. N /\ m - 1 \in 1 .. N /\ ~ (m <= m - 1)
    BY <1>1, <2>3
  <2>5. Fits(some[m - 1])
    BY <2>2, <2>4
  <2>6. Fits(some[m])
    <3> HIDE DEF bad
    <3> QED
      BY <1>8, <1>10, <2>4, <2>5, Zenon
  <2> QED
    BY <2>2, <2>6
<1>12. Fits(some[N])
  <2>1. N \in 1 .. N
    BY <1>1
  <2> QED
    BY <1>11, <2>1
<1> QED
  BY <1>3, <1>12 DEF Fits, I, Item

\* An inbox has one contract or none, of a sequence of rungs.
IsInbox(inbox) == inbox.contract = {} \/ \E c, R : inbox.contract = {c} /\ c.video \in Seq(R)

\* The inputs a run reads of a handoff: not nothing, no copy but of the
\* original, and the contract's where it has one.
ReadOf(inputs, inbox) ==
  /\ Range(inputs) # {} /\ CopiesAreCopies(Range(inputs), inbox)
  /\ inbox.contract # {} => IsTheContracts(inputs, inbox)

\* A handoff gives no inputs, or some as they are read.
LEMMA Resolved ==
  ASSUME NEW inbox, IsInbox(inbox), NEW there
  PROVE  \/ ResolveInputs(inbox, there) = {}
         \/ \E x : ResolveInputs(inbox, there) = {x} /\ ReadOf(x, inbox)
<1>1. ASSUME NEW y  PROVE Range(<<y>>) = {y}
  BY DEF Range
<1>2. CASE inbox.contract = {}
  <2>1. CASE "prepared" \in inbox.files
    <3> DEFINE y == Input(File(inbox.name, "prepared"), "transcoder")
    <3>1. ResolveInputs(inbox, there) = {<<y>>}
      BY <1>2, <2>1 DEF ResolveInputs
    <3>2. y.encoder # "copy"
      BY DEF Input
    <3>3. Range(<<y>>) = {y}
      BY <1>1
    <3> HIDE DEF y
    <3>4. ReadOf(<<y>>, inbox)
      BY <1>2, <3>2, <3>3 DEF ReadOf, CopiesAreCopies
    <3> QED
      BY <3>1, <3>4
  <2>2. CASE "prepared" \notin inbox.files
    <3> DEFINE y == Input(Original, "copy")
    <3>1. ResolveInputs(inbox, there) = {<<y>>}
      BY <1>2, <2>2 DEF ResolveInputs
    <3>2. y.file = Original
      BY DEF Input
    <3>3. Range(<<y>>) = {y}
      BY <1>1
    <3> HIDE DEF y
    <3>4. ReadOf(<<y>>, inbox)
      BY <1>2, <3>2, <3>3 DEF ReadOf, CopiesAreCopies
    <3> QED
      BY <3>1, <3>4
  <2> QED
    BY <2>1, <2>2
<1>3. CASE inbox.contract # {}
  <2>1. PICK c, R : inbox.contract = {c} /\ c.video \in Seq(R)
    BY <1>3 DEF IsInbox
  <2>2. ResolveInputs(inbox, there) = FromContract(inbox, c, there)
    BY <2>1 DEF ResolveInputs
  <2>3. CASE c.version \notin SUPPORTED_VERSIONS \/ ~ Usable(inbox, c.video, there)
    BY <2>2, <2>3 DEF FromContract
  <2>4. CASE c.version \in SUPPORTED_VERSIONS /\ Usable(inbox, c.video, there)
    <3> DEFINE x == InputsOf(inbox, c.video, there)
    <3>1. ResolveInputs(inbox, there) = {x}
      BY <2>2, <2>4 DEF FromContract
    <3>2. /\ x \in Seq(InputsOn(inbox, c.video)) /\ Len(x) >= 1
          /\ x[1] = Input(FileOf(inbox, c.video[1]), EncoderOf(c.video[1]))
      BY <2>1, <2>4, InputsHold
    <3> HIDE DEF x
    <3>3. Range(x) # {} /\ Range(x) \subseteq InputsOn(inbox, c.video)
      BY <3>2 DEF Range
    <3>4. x[1].file = FileOf(inbox, c.video[1])
      BY <3>2 DEF Input
    <3>5. IsTheContracts(x, inbox)
      BY <2>1, <2>4, <3>3, <3>4 DEF IsTheContracts, InputsOn
    <3>6. CopiesAreCopies(Range(x), inbox)
      <4> SUFFICES ASSUME NEW input \in Range(x), input.encoder = "copy", input.file # Original
                   PROVE  \E r \in Range(c.video) : r.file = input.file.name /\ "copy" \in {r.mode, r.encoder}
        BY <2>1 DEF CopiesAreCopies
      <4>1. PICK r \in Range(c.video) : input = Input(FileOf(inbox, r), EncoderOf(r))
        BY <3>3 DEF InputsOn
      <4>2. EncoderOf(r) = "copy" /\ input.file = FileOf(inbox, r)
        BY <4>1 DEF Input
      <4>3. r.file # "none" /\ FileOf(inbox, r) = File(inbox.name, r.file)
        BY <4>2 DEF FileOf
      <4>4. input.file.name = r.file
        BY <4>2, <4>3 DEF File
      <4>5. "copy" \in {r.mode, r.encoder}
        BY <4>2, <4>3 DEF EncoderOf
      <4> QED
        BY <4>4, <4>5
    <3> QED
      BY <3>1, <3>3, <3>5, <3>6 DEF ReadOf
  <2> QED
    BY <2>3, <2>4
<1> QED
  BY <1>2, <1>3

\* A run that starts from what is there.
RunOf(mode, step, inputs, into) == [does |-> mode, step |-> step, inputs |-> inputs, into |-> into]

\* With inputs read, a run starts only where their first is there.
LEMMA StartedAs ==
  ASSUME NEW inputs, inputs = {} \/ \E x : inputs = {x}, NEW mode, NEW step, NEW into, NEW there
  PROVE  \/ Started(mode, step, inputs, into, there) = Failed(step)
         \/ \E x \in inputs : /\ x[1].file \in there
                              /\ Started(mode, step, inputs, into, there) = RunOf(mode, step, x, into)
<1>1. CASE inputs = {}
  BY <1>1 DEF Started
<1>2. ASSUME NEW x, inputs = {x}
      PROVE  \/ Started(mode, step, inputs, into, there) = Failed(step)
             \/ x[1].file \in there /\ Started(mode, step, inputs, into, there) = RunOf(mode, step, x, into)
  <2>1. (CHOOSE i \in {x} : TRUE) = x
    OBVIOUS
  <2> QED
    BY <1>2, <2>1, Zenon DEF Started, RunOf
<1> QED
  BY <1>1, <1>2

\* What the enumerated records' folders are: paths, and no run is staged in
\* the original's.
PathNames == {"lib", "item", "sources", "s", "versions", "v", "staging", "inbox", "i", "extras", "e", "extra-e",
              "other", ".."}

PathsAre(lib) ==
  /\ lib.root \in Seq(PathNames) /\ lib.itemDir \in Seq(PathNames)
  /\ lib.versionDir \in Seq(PathNames) /\ lib.stagingDir \in Seq(PathNames)
  /\ lib.stagingDir # <<>> => Last(Front(lib.stagingDir)) # "sources"

\* A path is before one that goes on from it.
LEMMA PathGoesOn ==
  ASSUME NEW S, NEW path \in Seq(S), NEW x \in S, NEW y \in S
  PROVE  /\ IsStrictPrefix(path, Append(Append(path, x), y))
         /\ Last(Append(Append(path, x), y)) = y
         /\ Last(Front(Append(Append(path, x), y))) = x
<1> DEFINE one == Append(path, x)
           two == Append(one, y)
<1>1. /\ one \in Seq(S) /\ Len(one) = Len(path) + 1 /\ one[Len(path) + 1] = x
      /\ \A i \in 1 .. Len(path) : one[i] = path[i]
  BY AppendProperties
<1>2. /\ two \in Seq(S) /\ Len(two) = Len(one) + 1 /\ two[Len(one) + 1] = y
      /\ \A i \in 1 .. Len(one) : two[i] = one[i]
  <2> HIDE DEF one
  <2> QED
    BY <1>1, AppendProperties
<1>3. Last(one) = x
  BY <1>1 DEF Last
<1> HIDE DEF one
<1>4. Last(two) = y /\ Front(two) = one
  BY <1>1, AppendLast, FrontAppended
<1> HIDE DEF two
<1>5. IsStrictPrefix(path, two)
  BY <1>1, <1>2 DEF IsStrictPrefix, IsPrefix
<1> QED
  BY <1>3, <1>4, <1>5 DEF two, one

\* A path before another is before what that one is before.
LEMMA PathsGoOn ==
  ASSUME NEW S, NEW a \in Seq(S), NEW b \in Seq(S), NEW c \in Seq(S), IsStrictPrefix(a, b), IsStrictPrefix(b, c)
  PROVE  IsStrictPrefix(a, c)
BY DEF IsStrictPrefix, IsPrefix

\* The folders of an item's record that is read, and of an extra's.
LEMMA ItemFolders ==
  ASSUME NEW lib, PathsAre(lib), NEW type, ParseItemLibrary(lib, "i", type)
  PROVE  /\ WorksInItsFolders(lib, lib.versionId, FoldersOf(lib)) /\ AnItemsOwn(lib)
         /\ lib.mode \in BUILD_MODES \cup {"none"}
<1> DEFINE id == lib.versionId
           S == PathNames \cup {id, "versions"}
<1>1. /\ lib.contract = LIBRARY_CONTRACT /\ ~ lib.blocked /\ id \in UUIDS /\ AbsPath(lib.stagingDir)
      /\ IsStrictPrefix(lib.root, lib.itemDir) /\ Covers(lib.covers, "i", type)
      /\ lib.versionDir = Append(Append(lib.itemDir, "versions"), id)
      /\ lib.stagingDir = Append(Front(lib.stagingDir), id)
      /\ lib.mode \in BUILD_MODES \cup {"none"}
  BY Zenon DEF ParseItemLibrary, InStaging, In
<1>2. /\ lib.root \in Seq(S) /\ lib.itemDir \in Seq(S) /\ lib.versionDir \in Seq(S) /\ lib.stagingDir \in Seq(S)
      /\ id \in S /\ "versions" \in S
  <2>1. \A s : s \in Seq(PathNames) => s \in Seq(S)
    BY DEF PathNames
  <2>2. "versions" \in S /\ id \in S
    OBVIOUS
  <2> HIDE DEF S
  <2> QED
    BY <2>1, <2>2, Zenon DEF PathsAre
<1> HIDE DEF S
<1>3. /\ IsStrictPrefix(lib.itemDir, lib.versionDir)
      /\ Last(lib.versionDir) = id /\ Last(Front(lib.versionDir)) = "versions"
  BY <1>1, <1>2, PathGoesOn
<1>4. Last(lib.stagingDir) = id /\ Last(Front(lib.stagingDir)) # "sources"
  <2>1. lib.stagingDir # <<>>
    BY <1>1 DEF AbsPath
  <2>2. Front(lib.stagingDir) \in Seq(S)
    BY <1>2, <2>1, FrontLast
  <2>3. Last(Append(Front(lib.stagingDir), id)) = id
    BY <1>2, <2>2, AppendLast
  <2> QED
    BY <1>1, <2>1, <2>3 DEF PathsAre
<1>5. IsStrictPrefix(lib.root, lib.versionDir)
  BY <1>1, <1>2, <1>3, PathsGoOn
<1>6. lib.covers # <<>> => lib.covers[1] = "i"
  BY <1>1 DEF Covers
<1>7. WorksInItsFolders(lib, id, FoldersOf(lib))
  BY <1>1, <1>3, <1>4 DEF WorksInItsFolders, FoldersOf
<1> QED
  BY <1>1, <1>5, <1>6, <1>7 DEF AnItemsOwn

\* The folders of an extra's record that is read.
LEMMA ExtraFolders ==
  ASSUME NEW lib, PathsAre(lib), NEW id \in UUIDS, ParseExtraLibrary(lib, id)
  PROVE  WorksInItsFolders(lib, id, FoldersOf(lib))
<1> DEFINE name == "extra-" \o id
           S == PathNames \cup {id, name, "extras"}
<1>1. /\ lib.contract = LIBRARY_CONTRACT /\ AbsPath(lib.stagingDir)
      /\ lib.versionDir = Append(Append(lib.itemDir, "extras"), id)
      /\ lib.stagingDir = Append(Front(lib.stagingDir), name)
  BY Zenon DEF ParseExtraLibrary, InStaging, In
<1>2. \A into : WorksInItsFolders(lib, id, into) <=>
        /\ lib.contract = LIBRARY_CONTRACT /\ id \in UUIDS
        /\ \A folder \in into : Last(folder) \in {id, name} /\ Last(Front(folder)) # "sources"
        /\ lib.versionDir \in into /\ IsStrictPrefix(lib.itemDir, lib.versionDir)
  BY Zenon DEF WorksInItsFolders
<1> HIDE DEF name
<1>3. /\ lib.itemDir \in Seq(S) /\ lib.versionDir \in Seq(S) /\ lib.stagingDir \in Seq(S)
      /\ id \in S /\ name \in S /\ "extras" \in S
  <2>1. \A s : s \in Seq(PathNames) => s \in Seq(S)
    BY DEF PathNames
  <2>2. "extras" \in S /\ id \in S /\ name \in S
    OBVIOUS
  <2> HIDE DEF S
  <2> QED
    BY <2>1, <2>2, Zenon DEF PathsAre
<1> HIDE DEF S
<1>4. IsStrictPrefix(lib.itemDir, lib.versionDir) /\ Last(lib.versionDir) = id /\ Last(Front(lib.versionDir)) = "extras"
  BY <1>1, <1>3, PathGoesOn
<1>5. Last(lib.stagingDir) = name /\ Last(Front(lib.stagingDir)) # "sources"
  <2>1. lib.stagingDir # <<>>
    BY <1>1 DEF AbsPath
  <2>2. Front(lib.stagingDir) \in Seq(S)
    BY <1>3, <2>1, FrontLast
  <2>3. Last(Append(Front(lib.stagingDir), name)) = name
    BY <1>3, <2>2, AppendLast
  <2> QED
    BY <1>1, <2>1, <2>3 DEF PathsAre
<1> QED
  <2>1. \A folder \in FoldersOf(lib) : Last(folder) \in {id, name} /\ Last(Front(folder)) # "sources"
    BY <1>4, <1>5 DEF FoldersOf
  <2>2. lib.versionDir \in FoldersOf(lib)
    BY DEF FoldersOf
  <2> QED
    BY <1>1, <1>2, <1>4, <2>1, <2>2, Zenon

\* What may be said instead of a path.
Others(path) ==
  {Append(Front(path), "other"), <<"other">> \o Tail(path), <<>>, <<"..">> \o Tail(path), path}

\* What may be said instead is a path; a staging folder's keeps its middle.
LEMMA OtherPaths ==
  ASSUME NEW path \in Seq(PathNames), path # <<>>
  PROVE  /\ \A p \in Others(path) : p \in Seq(PathNames)
         /\ Len(path) = 3 => \A p \in Others(path) \ {<<>>} : Last(Front(p)) = path[2]
<1>1. "other" \in PathNames /\ ".." \in PathNames
  BY DEF PathNames
<1>2. /\ Front(path) \in Seq(PathNames) /\ Len(Front(path)) = Len(path) - 1
      /\ \A k \in 1 .. Len(path) - 1 : Front(path)[k] = path[k]
  BY FrontLast
<1> HIDE DEF PathNames
<1>3. ASSUME NEW x \in PathNames
      PROVE  /\ <<x>> \o Tail(path) \in Seq(PathNames) /\ Len(<<x>> \o Tail(path)) = Len(path)
             /\ \A k \in 2 .. Len(path) : (<<x>> \o Tail(path))[k] = path[k]
  OBVIOUS
<1>4. Append(Front(path), "other") \in Seq(PathNames) /\ <<>> \in Seq(PathNames)
  BY <1>1, <1>2
<1> DEFINE first == Append(Front(path), "other")
           second == <<"other">> \o Tail(path)
           third == <<"..">> \o Tail(path)
<1>5. \A p : p \in Others(path) => p \in {first, second, <<>>, third, path}
  BY Zenon DEF Others
<1>6. ASSUME Len(path) = 3, NEW p \in Seq(PathNames), Len(p) = 3, p[2] = path[2]
      PROVE  Last(Front(p)) = path[2]
  <2>1. p # <<>>
    BY <1>6
  <2>2. Len(Front(p)) = Len(p) - 1 /\ \A k \in 1 .. Len(p) - 1 : Front(p)[k] = p[k]
    BY <2>1, FrontLast
  <2>3. Len(Front(p)) = 2 /\ Front(p)[2] = path[2]
    BY <1>6, <2>2
  <2> QED
    BY <2>3 DEF Last
<1>7. ASSUME Len(path) = 3  PROVE Last(Front(first)) = path[2]
  <2>1. Front(first) = Front(path)
    BY <1>1, <1>2, FrontAppended
  <2>2. Len(Front(path)) = 2 /\ Front(path)[2] = path[2]
    BY <1>2, <1>7
  <2> HIDE DEF first
  <2> QED
    BY <2>1, <2>2 DEF Last
<1>8. /\ second \in Seq(PathNames) /\ Len(second) = Len(path)
      /\ \A k \in 2 .. Len(path) : second[k] = path[k]
  BY <1>1, <1>3, Zenon
<1>9. /\ third \in Seq(PathNames) /\ Len(third) = Len(path)
      /\ \A k \in 2 .. Len(path) : third[k] = path[k]
  BY <1>1, <1>3, Zenon
<1> HIDE DEF first, second, third
<1>10. ASSUME Len(path) = 3
       PROVE  /\ Last(Front(second)) = path[2] /\ Last(Front(third)) = path[2]
              /\ Last(Front(path)) = path[2]
  <2>1. 2 \in 2 .. Len(path)
    BY <1>10
  <2>2. second[2] = path[2] /\ third[2] = path[2] /\ Len(second) = 3 /\ Len(third) = 3
    BY <1>8, <1>9, <1>10, <2>1
  <2> QED
    BY <1>6, <1>8, <1>9, <1>10, <2>2
<1>11. \A p \in Others(path) : p \in Seq(PathNames)
  BY <1>4, <1>5, <1>8, <1>9 DEF first
<1> QED
  BY <1>5, <1>7, <1>10, <1>11

\* Of a record's block with one thing of it otherwise.
LEMMA OneOffPaths ==
  ASSUME NEW b, {"contract", "blocked", "shaped", "root", "itemDir", "recordDir", "versionDir", "stagingDir",
                 "inboxDir", "sourceId", "versionId", "covers", "mode", "originalName"} \subseteq DOMAIN b,
         NEW lib \in OneOff(b)
  PROVE  /\ lib.root \in {b.root, <<"lib", "item">>} /\ lib.itemDir \in Others(b.itemDir)
         /\ lib.versionDir \in Others(b.versionDir) /\ lib.stagingDir \in Others(b.stagingDir)
<1>1. \A path : path \in Others(path)
  BY DEF Others
<1>2. \/ \E v : \/ lib = [b EXCEPT !.contract = v] \/ lib = [b EXCEPT !.blocked = v] \/ lib = [b EXCEPT !.shaped = v]
               \/ lib = [b EXCEPT !.sourceId = v] \/ lib = [b EXCEPT !.versionId = v]
               \/ lib = [b EXCEPT !.originalName = v] \/ lib = [b EXCEPT !.mode = v]
               \/ lib = [b EXCEPT !.recordDir = v] \/ lib = [b EXCEPT !.inboxDir = v]
               \/ lib = [b EXCEPT !.covers = v]
      \/ lib = [b EXCEPT !.root = <<"lib", "item">>]
      \/ \E v \in Others(b.itemDir) : lib = [b EXCEPT !.itemDir = v]
      \/ \E v \in Others(b.versionDir) : lib = [b EXCEPT !.versionDir = v]
      \/ \E v \in Others(b.stagingDir) : lib = [b EXCEPT !.stagingDir = v]
  BY Zenon DEF OneOff, Others
<1> QED
  BY <1>1, <1>2, Zenon

\* The records of the specification name their folders by paths.
LEMMA BlocksHavePaths ==
  ASSUME NEW b, \/ \E mode : b = Block(mode)
                \/ b = ExtraBlock,
         NEW lib \in {b} \cup OneOff(b)
  PROVE  PathsAre(lib)
<1> DEFINE item == <<"lib", "item">>
<1>1. /\ <<"lib">> \in Seq(PathNames) /\ item \in Seq(PathNames)
      /\ <<"lib", "item", "versions", "v">> \in Seq(PathNames) /\ <<"lib", "item", "extras", "e">> \in Seq(PathNames)
      /\ <<"lib", "staging", "v">> \in Seq(PathNames) /\ <<"lib", "staging", "extra-e">> \in Seq(PathNames)
  BY DEF PathNames
<1>2. /\ {"contract", "blocked", "shaped", "root", "itemDir", "recordDir", "versionDir", "stagingDir", "inboxDir",
          "sourceId", "versionId", "covers", "mode", "originalName"} \subseteq DOMAIN b
      /\ b.root = <<"lib">> /\ b.itemDir = item
      /\ b.versionDir \in {<<"lib", "item", "versions", "v">>, <<"lib", "item", "extras", "e">>}
      /\ b.stagingDir \in {<<"lib", "staging", "v">>, <<"lib", "staging", "extra-e">>}
  <2>1. \A mode :
          /\ {"contract", "blocked", "shaped", "root", "itemDir", "recordDir", "versionDir", "stagingDir", "inboxDir",
              "sourceId", "versionId", "covers", "mode", "originalName"} \subseteq DOMAIN Block(mode)
          /\ Block(mode).root = <<"lib">> /\ Block(mode).itemDir = item
          /\ Block(mode).versionDir = <<"lib", "item", "versions", "v">>
          /\ Block(mode).stagingDir = <<"lib", "staging", "v">>
    BY DEF Block
  <2>2. /\ DOMAIN ExtraBlock = DOMAIN Block("none")
        /\ ExtraBlock.root = Block("none").root /\ ExtraBlock.itemDir = Block("none").itemDir
        /\ ExtraBlock.versionDir = <<"lib", "item", "extras", "e">>
        /\ ExtraBlock.stagingDir = <<"lib", "staging", "extra-e">>
    <3> DEFINE n == Block("none")
    <3>1. {"root", "itemDir", "versionDir", "stagingDir"} \subseteq DOMAIN n
      BY <2>1
    <3>2. ExtraBlock = [n EXCEPT !.versionDir = <<"lib", "item", "extras", "e">>,
                                 !.stagingDir = <<"lib", "staging", "extra-e">>]
      BY Zenon DEF ExtraBlock
    <3> HIDE DEF n
    <3>3. \A v, s : /\ DOMAIN [n EXCEPT !.versionDir = v, !.stagingDir = s] = DOMAIN n
                    /\ [n EXCEPT !.versionDir = v, !.stagingDir = s].root = n.root
                    /\ [n EXCEPT !.versionDir = v, !.stagingDir = s].itemDir = n.itemDir
                    /\ [n EXCEPT !.versionDir = v, !.stagingDir = s].versionDir = v
                    /\ [n EXCEPT !.versionDir = v, !.stagingDir = s].stagingDir = s
      BY <3>1, Zenon
    <3> QED
      BY <3>2, <3>3, Zenon DEF n
  <2> HIDE DEF item
  <2>3. CASE b = ExtraBlock
    <3>1. /\ DOMAIN b = DOMAIN Block("none") /\ b.root = Block("none").root /\ b.itemDir = Block("none").itemDir
          /\ b.versionDir = <<"lib", "item", "extras", "e">> /\ b.stagingDir = <<"lib", "staging", "extra-e">>
      BY <2>2, <2>3, Zenon
    <3> QED
      BY <2>1, <3>1, Zenon
  <2>4. CASE \E mode : b = Block(mode)
    BY <2>1, <2>4, Zenon
  <2> QED
    BY <2>3, <2>4
<1>3. /\ lib.root \in {<<"lib">>, item} /\ lib.itemDir \in Others(item)
      /\ lib.versionDir \in Others(b.versionDir) /\ lib.stagingDir \in Others(b.stagingDir)
  <2>1. CASE lib = b
    BY <1>2, <2>1 DEF Others
  <2>2. CASE lib \in OneOff(b)
    <3> HIDE DEF item
    <3>1. /\ lib.root \in {b.root, <<"lib", "item">>} /\ lib.itemDir \in Others(b.itemDir)
          /\ lib.versionDir \in Others(b.versionDir) /\ lib.stagingDir \in Others(b.stagingDir)
      BY <1>2, <2>2, OneOffPaths
    <3> QED
      BY <1>2, <3>1, Zenon DEF item
  <2> QED
    BY <2>1, <2>2
<1>4. /\ b.versionDir \in Seq(PathNames) /\ b.versionDir # <<>>
      /\ b.stagingDir \in Seq(PathNames) /\ b.stagingDir # <<>> /\ Len(b.stagingDir) = 3 /\ b.stagingDir[2] = "staging"
  <2> DEFINE Version(p) == p \in Seq(PathNames) /\ p # <<>>
             Staging(p) == Version(p) /\ Len(p) = 3 /\ p[2] = "staging"
  <2>1. Version(<<"lib", "item", "versions", "v">>) /\ Version(<<"lib", "item", "extras", "e">>)
    BY <1>1
  <2>2. Staging(<<"lib", "staging", "v">>) /\ Staging(<<"lib", "staging", "extra-e">>)
    BY <1>1
  <2> HIDE DEF Version, Staging
  <2>3. Version(b.versionDir) /\ Staging(b.stagingDir)
    BY <1>2, <2>1, <2>2, Zenon
  <2> QED
    BY <2>3, Zenon DEF Version, Staging
<1>5. item # <<>>
  OBVIOUS
<1> HIDE DEF item
<1>6. lib.itemDir \in Seq(PathNames) /\ lib.versionDir \in Seq(PathNames) /\ lib.stagingDir \in Seq(PathNames)
  BY <1>1, <1>3, <1>4, <1>5, OtherPaths
<1>7. lib.stagingDir # <<>> => Last(Front(lib.stagingDir)) = "staging"
  BY <1>3, <1>4, OtherPaths
<1> QED
  BY <1>1, <1>3, <1>6, <1>7 DEF PathsAre

\* What comes of an item's event, with its record.
IsRecord(record, id) ==
  record.id = id /\ (record.library = {} \/ \E lib : record.library = {lib} /\ PathsAre(lib))

\* An item's library record is read only with folders of its own.
LEMMA ItemRead ==
  ASSUME NEW record, IsRecord(record, "i")
  PROVE  LET lib == CHOOSE l \in record.library : TRUE
         IN /\ ItemLibrary(record) = "none" <=> record.library = {}
            /\ ItemLibrary(record) \in {"none", "read", "refused"}
            /\ ItemLibrary(record) = "read" =>
                 /\ WorksInItsFolders(lib, lib.versionId, FoldersOf(lib)) /\ AnItemsOwn(lib)
                 /\ lib.mode \in BUILD_MODES \cup {"none"}
<1>1. CASE record.library = {}
  BY <1>1 DEF ItemLibrary
<1>2. CASE record.library # {}
  <2>1. PICK l : record.library = {l} /\ PathsAre(l)
    BY <1>2 DEF IsRecord
  <2>2. (CHOOSE x \in record.library : TRUE) = l
    BY <2>1
  <2>3. ItemLibrary(record) = IF ParseItemLibrary(l, "i", record.type) THEN "read" ELSE "refused"
    BY <2>1 DEF ItemLibrary, IsRecord
  <2>4. CASE ParseItemLibrary(l, "i", record.type)
    <3>1. /\ WorksInItsFolders(l, l.versionId, FoldersOf(l)) /\ AnItemsOwn(l)
          /\ l.mode \in BUILD_MODES \cup {"none"}
      BY <2>1, <2>4, ItemFolders
    <3> QED
      BY <1>2, <2>2, <2>3, <2>4, <3>1
  <2>5. CASE ~ ParseItemLibrary(l, "i", record.type)
    BY <1>2, <2>3, <2>5
  <2> QED
    BY <2>4, <2>5
<1> QED
  BY <1>1, <1>2

\* An extra's is, too.
LEMMA ExtraRead ==
  ASSUME NEW record, NEW id \in UUIDS, IsRecord(record, id)
  PROVE  LET lib == CHOOSE l \in record.library : TRUE
         IN /\ ExtraLibrary(record) = "none" <=> record.library = {}
            /\ ExtraLibrary(record) \in {"none", "read", "refused"}
            /\ ExtraLibrary(record) = "read" => WorksInItsFolders(lib, id, FoldersOf(lib))
<1>1. CASE record.library = {}
  BY <1>1 DEF ExtraLibrary
<1>2. CASE record.library # {}
  <2>1. PICK l : record.library = {l} /\ PathsAre(l)
    BY <1>2 DEF IsRecord
  <2>2. (CHOOSE x \in record.library : TRUE) = l
    BY <2>1
  <2>3. ExtraLibrary(record) = IF ParseExtraLibrary(l, id) THEN "read" ELSE "refused"
    BY <2>1 DEF ExtraLibrary, IsRecord
  <2>4. CASE ParseExtraLibrary(l, id)
    <3>1. WorksInItsFolders(l, id, FoldersOf(l))
      BY <2>1, <2>4, ExtraFolders
    <3> QED
      BY <1>2, <2>2, <2>3, <2>4, <3>1
  <2>5. CASE ~ ParseExtraLibrary(l, id)
    BY <1>2, <2>3, <2>5
  <2> QED
    BY <2>4, <2>5
<1> QED
  BY <1>1, <1>2

\* An event's outcome, whatever it is of.
LEMMA OutcomesAre ==
  /\ Acked.does = "acked" /\ Range(Acked.inputs) = {}
  /\ \A step : Failed(step).does = "failed" /\ Range(Failed(step).inputs) = {}
  /\ \A mode, step, x, into :
       LET run == RunOf(mode, step, x, into)
       IN run.does = mode /\ run.step = step /\ run.inputs = x /\ run.into = into
BY DEF Acked, Failed, RunOf, Range

\* A copy of a handoff is a copy of any, where it has no contract.
LEMMA ReadAnyway ==
  ASSUME NEW inbox, NEW legacy, NEW x, ReadOf(x, inbox) \/ (ReadOf(x, legacy) /\ legacy.contract = {})
  PROVE  Range(x) # {} /\ CopiesAreCopies(Range(x), inbox)
BY DEF ReadOf, CopiesAreCopies

\* The event of an item starts nothing, fails, or starts a run.
ModeOf(lib) == IF lib.mode = "none" THEN "repackage" ELSE lib.mode

ItemOutcome(out, record, lib, steps, inbox, legacy, there) ==
  \/ out = Failed("package")
  \/ out = Acked /\ record.library # {} /\ lib.mode = "takein"
  \/ \E x : /\ out = RunOf("store", "package", x, {}) /\ record.library = {}
            /\ x[1].file \in there /\ ReadOf(x, legacy)
  \/ \E x, h : /\ h \in {inbox, legacy} /\ (HasHandoff(inbox) => h = inbox)
               /\ HasHandoff(h) \/ steps.transcode # "done"
               /\ x[1].file \in there /\ ReadOf(x, h)
               /\ ItemLibrary(record) = "read" /\ lib.mode # "takein"
               /\ out = RunOf(ModeOf(lib), "package", x, FoldersOf(lib))

\* A handoff fails the step, or starts a run on what is read of it.
LEMMA ReadRuns ==
  ASSUME NEW inbox, IsInbox(inbox), NEW mode, NEW step, NEW into, NEW there
  PROVE  \/ Started(mode, step, ResolveInputs(inbox, there), into, there) = Failed(step)
         \/ \E x : /\ x[1].file \in there /\ ReadOf(x, inbox)
                   /\ Started(mode, step, ResolveInputs(inbox, there), into, there) = RunOf(mode, step, x, into)
<1> DEFINE inputs == ResolveInputs(inbox, there)
<1>1. inputs = {} \/ \E x : inputs = {x} /\ ReadOf(x, inbox)
  BY Resolved
<1> HIDE DEF inputs
<1>2. \/ Started(mode, step, inputs, into, there) = Failed(step)
      \/ \E x \in inputs : /\ x[1].file \in there
                           /\ Started(mode, step, inputs, into, there) = RunOf(mode, step, x, into)
  BY <1>1, StartedAs
<1> QED
  BY <1>1, <1>2, Zenon DEF inputs

\* An item's event has no other outcome.
LEMMA ItemRuns ==
  ASSUME NEW record, IsRecord(record, "i"), NEW steps, NEW inbox, IsInbox(inbox),
         NEW legacy, legacy.contract = {}, NEW there
  PROVE  ItemOutcome(ProcessOne(record, steps, inbox, legacy, there), record,
                     CHOOSE l \in record.library : TRUE, steps, inbox, legacy, there)
<1> DEFINE lib == CHOOSE l \in record.library : TRUE
           out == ProcessOne(record, steps, inbox, legacy, there)
           h == Handoff(inbox, legacy)
           mode == ModeOf(lib)
<1>1. ItemLibrary(record) \in {"none", "read", "refused"} /\ (ItemLibrary(record) = "none" <=> record.library = {})
  BY ItemRead
<1>2. IsInbox(legacy)
  BY DEF IsInbox
<1>3. ASSUME NEW g, IsInbox(g), NEW m, NEW into
      PROVE  \/ Started(m, "package", ResolveInputs(g, there), into, there) = Failed("package")
             \/ \E x : /\ x[1].file \in there /\ ReadOf(x, g)
                       /\ Started(m, "package", ResolveInputs(g, there), into, there) = RunOf(m, "package", x, into)
  BY <1>3, ReadRuns
<1>4. CASE ItemLibrary(record) = "refused"
  <2>1. out = Failed("package")
    BY <1>4, Zenon DEF ProcessOne
  <2> QED
    BY <2>1, Zenon DEF ItemOutcome
<1>5. CASE ItemLibrary(record) = "none"
  <2>1. out = Started("store", "package", ResolveInputs(legacy, there), {}, there)
    BY <1>5 DEF ProcessOne
  <2>2. record.library = {}
    BY <1>1, <1>5
  <2> HIDE DEF out
  <2>3. \/ out = Failed("package")
        \/ \E x : x[1].file \in there /\ ReadOf(x, legacy) /\ out = RunOf("store", "package", x, {})
    BY <1>2, <1>3, <2>1, Zenon
  <2> QED
    BY <2>2, <2>3, Zenon DEF out, ItemOutcome
<1>6. CASE ItemLibrary(record) = "read"
  <2>1. out = ProcessLibrary(lib, steps, inbox, legacy, there)
    BY <1>6 DEF ProcessOne
  <2>2. record.library # {}
    BY <1>1, <1>6
  <2>3. /\ h \in {inbox, legacy} /\ (HasHandoff(inbox) => h = inbox) /\ IsInbox(h)
    BY <1>2 DEF Handoff
  <2> HIDE DEF h, lib
  <2>4. out = IF lib.mode = "takein" THEN Acked
              ELSE IF ~ HasHandoff(h) /\ steps.transcode = "done" THEN Failed("package")
              ELSE Started(mode, "package", ResolveInputs(h, there), FoldersOf(lib), there)
    BY <2>1, Zenon DEF ProcessLibrary, ModeOf, h
  <2> HIDE DEF out, mode
  <2>5. ItemOutcome(out, record, lib, steps, inbox, legacy, there) =>
          ItemOutcome(ProcessOne(record, steps, inbox, legacy, there), record,
                      CHOOSE l \in record.library : TRUE, steps, inbox, legacy, there)
    BY Zenon DEF out, lib
  <2>6. CASE lib.mode = "takein"
    BY <2>5, <2>2, <2>4, <2>6, Zenon DEF ItemOutcome
  <2>7. CASE lib.mode # "takein" /\ ~ HasHandoff(h) /\ steps.transcode = "done"
    BY <2>5, <2>4, <2>7, Zenon DEF ItemOutcome
  <2>8. CASE lib.mode # "takein" /\ ~ (~ HasHandoff(h) /\ steps.transcode = "done")
    <3>1. out = Started(mode, "package", ResolveInputs(h, there), FoldersOf(lib), there)
      BY <2>4, <2>8, Zenon
    <3>2. \/ out = Failed("package")
          \/ \E x : x[1].file \in there /\ ReadOf(x, h) /\ out = RunOf(mode, "package", x, FoldersOf(lib))
      <4>1. \/ Started(mode, "package", ResolveInputs(h, there), FoldersOf(lib), there) = Failed("package")
            \/ \E x : /\ x[1].file \in there /\ ReadOf(x, h)
                      /\ Started(mode, "package", ResolveInputs(h, there), FoldersOf(lib), there)
                          = RunOf(mode, "package", x, FoldersOf(lib))
        BY <1>3, <2>3
      <4> QED
        BY <3>1, <4>1, Zenon
    <3>3. CASE out = Failed("package")
      BY <2>5, <3>3, Zenon DEF ItemOutcome
    <3>4. CASE \E x : x[1].file \in there /\ ReadOf(x, h) /\ out = RunOf(mode, "package", x, FoldersOf(lib))
      <4>1. PICK x : x[1].file \in there /\ ReadOf(x, h) /\ out = RunOf(mode, "package", x, FoldersOf(lib))
        BY <3>4
      <4>2. /\ h \in {inbox, legacy} /\ (HasHandoff(inbox) => h = inbox)
            /\ HasHandoff(h) \/ steps.transcode # "done"
            /\ x[1].file \in there /\ ReadOf(x, h)
            /\ ItemLibrary(record) = "read" /\ lib.mode # "takein"
            /\ out = RunOf(ModeOf(lib), "package", x, FoldersOf(lib))
        BY <1>6, <2>3, <2>8, <4>1, Zenon DEF mode
      <4> QED
        BY <2>5, <4>2, Zenon DEF ItemOutcome
    <3> QED
      BY <3>2, <3>3, <3>4
  <2> QED
    BY <2>6, <2>7, <2>8
<1> QED
  BY <1>1, <1>4, <1>5, <1>6

\* JobLands of a job, and of an item's.
LandsTold(j) ==
  j.kind \in {"event", "extra"} =>
    LET runs == j.out.does \notin {"acked", "failed"}
        record == CHOOSE r \in j.records : TRUE
        lib == CHOOSE l \in record.library : TRUE
    IN /\ j.kind = "event" =>
            /\ Lands(j, runs, record.library, lib, lib.versionId)
            /\ EventLands(j, runs, record.library, lib)
       /\ j.kind = "extra" =>
            /\ Lands(j, runs, record.library, lib, j.event.itemId)
            /\ ExtraLands(j, record)

TheRecord(j) == CHOOSE r \in j.records : TRUE
TheBlock(j) == CHOOSE l \in TheRecord(j).library : TRUE

IsEventJob(j) ==
  /\ j.kind = "event" /\ j.event.step \in {"package", "takein"} /\ j.steps \in StepsOf
  /\ \/ j.records = {}
     \/ /\ j.event.object = TRUE /\ j.event.itemId # "none"
        /\ \E r : j.records = {r} /\ IsRecord(r, "i")
  /\ IsInbox(j.inbox) /\ j.legacy.contract = {}
  /\ j.out = HandleMessage(j.event, j.records, j.steps, j.inbox, j.legacy, j.there)

\* A job that starts no run lands where it was dropped rightly.
LEMMA StoppedLands ==
  ASSUME NEW j, \/ j.out = Acked
                \/ \E step : j.out = Failed(step),
         NEW library, NEW lib, NEW id
  PROVE  /\ Lands(j, FALSE, library, lib, id)
         /\ j.out.does \in {"acked", "failed"}
         /\ (j.out.does = "acked" => RightlyDropped(j.event, j.records, j.steps, library, lib))
              => EventLands(j, FALSE, library, lib)
<1>1. j.out.does \in {"acked", "failed"} /\ Range(j.out.inputs) = {}
  BY OutcomesAre, Zenon
<1>2. CopiesAreCopies(Range(j.out.inputs), j.inbox)
  BY <1>1 DEF CopiesAreCopies
<1>3. Lands(j, FALSE, library, lib, id)
  BY <1>2, Zenon DEF Lands, RunsFromWhatIsThere
<1>4. j.out.does # "takein"
  BY <1>1
<1> QED
  BY <1>1, <1>3, <1>4, Zenon DEF EventLands

\* An event that starts nothing lands: it fails, or is rightly dropped.
LEMMA StoppedEvent ==
  ASSUME NEW j, j.kind = "event",
         \/ j.out = Acked /\ RightlyDropped(j.event, j.records, j.steps, TheRecord(j).library, TheBlock(j))
         \/ \E step : j.out = Failed(step)
  PROVE  LandsTold(j)
<1> DEFINE runs == j.out.does \notin {"acked", "failed"}
           library == TheRecord(j).library
           lib == TheBlock(j)
<1>1. j.out = Acked \/ \E step : j.out = Failed(step)
  OBVIOUS
<1>2. j.out.does \in {"acked", "failed"} /\ Lands(j, FALSE, library, lib, lib.versionId)
  <2> HIDE DEF library, lib
  <2> QED
    BY <1>1, StoppedLands
<1>3. j.out.does = "acked" => RightlyDropped(j.event, j.records, j.steps, library, lib)
  <2>1. \A step : Failed(step).does # "acked"
    BY OutcomesAre
  <2> QED
    BY <2>1, Zenon
<1>4. EventLands(j, FALSE, library, lib)
  <2> HIDE DEF library, lib
  <2> QED
    BY <1>1, <1>3, StoppedLands
<1>5. runs = FALSE
  BY <1>2
<1>6. Lands(j, runs, library, lib, lib.versionId) /\ EventLands(j, runs, library, lib)
  BY <1>2, <1>4, <1>5, Zenon
<1>7. j.kind # "extra"
  OBVIOUS
<1> QED
  BY <1>6, <1>7, Zenon DEF LandsTold, TheBlock, TheRecord

\* A run of an item lands.
LEMMA RunLands ==
  ASSUME NEW j, j.kind = "event", j.legacy.contract = {}, NEW mode, NEW step, NEW x, NEW into,
         j.out = RunOf(mode, step, x, into), x[1].file \in j.there,
         Range(x) # {}, CopiesAreCopies(Range(x), j.inbox),
         mode \notin {"acked", "failed"}, j.steps[step] \notin FINISHED,
         mode = "store" <=> TheRecord(j).library = {},
         mode = "takein" => step = "takein" /\ TheBlock(j).mode = "takein",
         TheRecord(j).library # {} =>
           /\ WorksInItsFolders(TheBlock(j), TheBlock(j).versionId, into) /\ AnItemsOwn(TheBlock(j))
           /\ step = "package" =>
                /\ j.inbox.contract # {} => IsTheContracts(x, j.inbox)
                /\ j.steps.transcode = "done" => HasHandoff(j.inbox) \/ HasHandoff(j.legacy)
  PROVE  LandsTold(j)
<1> DEFINE runs == j.out.does \notin {"acked", "failed"}
           library == TheRecord(j).library
           lib == TheBlock(j)
<1>1. j.out.does = mode /\ j.out.step = step /\ j.out.inputs = x /\ j.out.into = into
  BY DEF RunOf
<1>2. (j.out.does = "store") = (library = {})
  <2>1. j.out.does = "store" <=> library = {}
    BY <1>1
  <2> HIDE DEF library
  <2> QED
    BY <2>1, Zenon
<1>3. Lands(j, runs, library, lib, lib.versionId)
  <2>1. RunsFromWhatIsThere(runs, library, j.out, j.there)
    <3> HIDE DEF runs, library
    <3> QED
      BY <1>1, <1>2, Zenon DEF RunsFromWhatIsThere
  <2> QED
    BY <1>1, <2>1, Zenon DEF Lands
<1>4. j.out.does # "acked"
  BY <1>1
<1>5. EventLands(j, runs, library, lib)
  BY <1>1, <1>4, Zenon DEF EventLands
<1>6. j.kind # "extra"
  OBVIOUS
<1> QED
  BY <1>3, <1>5, <1>6, Zenon DEF LandsTold, TheBlock, TheRecord

\* Each event of an item lands.
LEMMA EventTold ==
  ASSUME NEW j, IsEventJob(j)
  PROVE  LandsTold(j)
<1> DEFINE lib == TheBlock(j)
           record == TheRecord(j)
<1>1. /\ j.kind = "event" /\ j.event.step \in {"package", "takein"} /\ j.steps \in StepsOf
      /\ IsInbox(j.inbox) /\ j.legacy.contract = {}
      /\ j.out = HandleMessage(j.event, j.records, j.steps, j.inbox, j.legacy, j.there)
  BY DEF IsEventJob
<1>2. CASE j.records = {}
  <2>1. j.out = Acked
    BY <1>1, <1>2 DEF HandleMessage
  <2>2. RightlyDropped(j.event, j.records, j.steps, record.library, lib)
    <3> HIDE DEF record, lib
    <3> QED
      BY <1>2, Zenon DEF RightlyDropped
  <2> QED
    BY <1>1, <2>1, <2>2, StoppedEvent
<1>3. CASE j.records # {}
  <2>1. PICK r : j.records = {r} /\ IsRecord(r, "i") /\ j.event.object = TRUE /\ j.event.itemId # "none"
    BY <1>3 DEF IsEventJob
  <2>2. record = r
    BY <2>1 DEF TheRecord
  <2>3. ParseItemId(j.event) # {}
    BY <2>1 DEF ParseItemId
  <2>4. ASSUME j.out = Acked, RightlyDropped(j.event, j.records, j.steps, r.library, lib)  PROVE LandsTold(j)
    BY <1>1, <2>2, <2>4, StoppedEvent
  <2>5. ASSUME \E step : j.out = Failed(step)  PROVE LandsTold(j)
    BY <1>1, <2>5, StoppedEvent
  <2>6. lib = CHOOSE l \in r.library : TRUE
    BY <2>2 DEF TheBlock
  <2>7. /\ ItemLibrary(r) = "none" <=> r.library = {}
        /\ ItemLibrary(r) \in {"none", "read", "refused"}
        /\ ItemLibrary(r) = "read" =>
             /\ WorksInItsFolders(lib, lib.versionId, FoldersOf(lib)) /\ AnItemsOwn(lib)
             /\ lib.mode \in BUILD_MODES \cup {"none"}
    BY <2>1, <2>6, ItemRead
  <2>8. CASE j.event.step = "takein"
    <3>1. IsTakein(j.event) /\ "takein" = j.event.step
      BY <2>1, <2>8 DEF IsTakein
    <3>2. j.out = IF j.steps.takein \in FINISHED THEN Acked ELSE ProcessTakein(r, j.there)
      BY <1>1, <1>3, <2>1, <2>3, <3>1 DEF HandleMessage
    <3>3. CASE j.steps.takein \in FINISHED
      <4>1. j.out = Acked
        BY <3>2, <3>3
      <4>2. j.steps[j.event.step] \in FINISHED
        BY <3>3, <2>8
      <4>3. RightlyDropped(j.event, j.records, j.steps, r.library, lib)
        <5> HIDE DEF lib
        <5> QED
          BY <4>2, Zenon DEF RightlyDropped
      <4> QED
        BY <2>4, <4>1, <4>3
    <3>4. CASE j.steps.takein \notin FINISHED
      <4> DEFINE y == Input(Original, "copy")
      <4>1. j.out = ProcessTakein(r, j.there)
        BY <3>2, <3>4
      <4>2. j.out = IF ItemLibrary(r) = "refused" THEN Failed("takein")
                    ELSE IF ItemLibrary(r) = "none" \/ lib.mode # "takein" THEN Acked
                    ELSE Started("takein", "takein", {<<y>>}, FoldersOf(lib), j.there)
        <5> HIDE DEF y
        <5>1. j.out = IF ItemLibrary(r) = "refused" THEN Failed("takein")
                      ELSE IF ItemLibrary(r) = "none" THEN Acked
                      ELSE IF lib.mode # "takein" THEN Acked
                      ELSE Started("takein", "takein", {<<y>>}, FoldersOf(lib), j.there)
          BY <2>6, <4>1 DEF ProcessTakein, y
        <5> QED
          BY <5>1
      <4>3. CASE ItemLibrary(r) = "refused"
        <5>1. j.out = Failed("takein")
          BY <4>2, <4>3
        <5> QED
          BY <2>5, <5>1, Zenon
      <4>4. CASE ItemLibrary(r) = "none" \/ (ItemLibrary(r) = "read" /\ lib.mode # "takein")
        <5> HIDE DEF lib
        <5>1. j.out = Acked
          BY <4>2, <4>4
        <5>2. r.library = {} \/ (r.library # {} /\ (lib.mode = "takein") # (j.event.step = "takein"))
          <6>1. lib.mode # "takein" => (lib.mode = "takein") # (j.event.step = "takein")
            BY <2>8, Zenon
          <6> QED
            BY <2>7, <4>4, <6>1, Zenon
        <5>3. RightlyDropped(j.event, j.records, j.steps, r.library, lib)
          BY <2>8, <5>2, Zenon DEF RightlyDropped
        <5> QED
          BY <2>4, <5>1, <5>3, Zenon DEF lib
      <4>5. CASE ItemLibrary(r) = "read" /\ lib.mode = "takein"
        <5>1. j.out = Started("takein", "takein", {<<y>>}, FoldersOf(lib), j.there)
          BY <4>2, <4>5
        <5> DEFINE inputs == {<<y>>}
        <5>2. \/ j.out = Failed("takein")
              \/ \E x \in inputs : /\ x[1].file \in j.there /\ j.out = RunOf("takein", "takein", x, FoldersOf(lib))
          <6> HIDE DEF y, lib
          <6>1. \E x : inputs = {x}
            OBVIOUS
          <6> HIDE DEF inputs
          <6>2. \/ Started("takein", "takein", inputs, FoldersOf(lib), j.there) = Failed("takein")
                \/ \E x \in inputs : /\ x[1].file \in j.there
                                     /\ Started("takein", "takein", inputs, FoldersOf(lib), j.there)
                                          = RunOf("takein", "takein", x, FoldersOf(lib))
            BY <6>1, StartedAs
          <6> QED
            BY <5>1, <6>2, Zenon DEF inputs
        <5>3. CASE j.out = Failed("takein")
          BY <2>5, <5>3, Zenon
        <5>4. CASE \E x \in inputs : /\ x[1].file \in j.there /\ j.out = RunOf("takein", "takein", x, FoldersOf(lib))
          <6>1. <<y>>[1].file \in j.there /\ j.out = RunOf("takein", "takein", <<y>>, FoldersOf(lib))
            <7> HIDE DEF y, lib
            <7> QED
              BY <5>4
          <6>2. y.file = Original
            BY DEF Input
          <6>3. Range(<<y>>) = {y}
            <7> HIDE DEF y
            <7> QED
              BY DEF Range
          <6> HIDE DEF y
          <6>4. Range(<<y>>) # {} /\ CopiesAreCopies(Range(<<y>>), j.inbox)
            BY <6>2, <6>3 DEF CopiesAreCopies
          <6>5. j.steps["takein"] \notin FINISHED
            BY <3>4
          <6>6. r.library # {} /\ WorksInItsFolders(lib, lib.versionId, FoldersOf(lib)) /\ AnItemsOwn(lib)
            <7> HIDE DEF lib
            <7> QED
              BY <2>7, <4>5
          <6> HIDE DEF lib, record
          <6>7. r = TheRecord(j) /\ lib = TheBlock(j)
            BY <2>2, Zenon DEF lib, record
          <6> QED
            BY <1>1, <4>5, <6>1, <6>4, <6>5, <6>6, <6>7, RunLands
        <5> QED
          BY <5>2, <5>3, <5>4
      <4> QED
        BY <2>7, <4>3, <4>4, <4>5
    <3> QED
      BY <3>3, <3>4
  <2>9. CASE j.event.step = "package"
    <3>1. ~ IsTakein(j.event)
      BY <2>9 DEF IsTakein
    <3>2. j.out = IF j.steps.package \in FINISHED \/ j.steps.transcode \notin FINISHED \cup {"none"} THEN Acked
                  ELSE ProcessOne(r, j.steps, j.inbox, j.legacy, j.there)
      BY <1>1, <1>3, <2>1, <2>3, <3>1 DEF HandleMessage
    <3>3. CASE j.steps.package \in FINISHED \/ j.steps.transcode \notin FINISHED \cup {"none"}
      <4>1. j.out = Acked
        BY <3>2, <3>3
      <4>2. j.steps[j.event.step] \in FINISHED \/ (j.event.step = "package" /\ j.steps.transcode = "pending")
        BY <1>1, <2>9, <3>3 DEF StepsOf, FINISHED
      <4>3. RightlyDropped(j.event, j.records, j.steps, r.library, lib)
        <5> HIDE DEF lib
        <5> QED
          BY <4>2, Zenon DEF RightlyDropped
      <4> QED
        BY <2>4, <4>1, <4>3
    <3>4. CASE ~ (j.steps.package \in FINISHED \/ j.steps.transcode \notin FINISHED \cup {"none"})
      <4>1. j.out = ProcessOne(r, j.steps, j.inbox, j.legacy, j.there) /\ j.steps["package"] \notin FINISHED
        BY <3>2, <3>4
      <4> HIDE DEF lib, record
      <4>2. r = TheRecord(j) /\ lib = TheBlock(j)
        BY <2>2, Zenon DEF lib, record
      <4>3. ItemOutcome(j.out, r, lib, j.steps, j.inbox, j.legacy, j.there)
        <5>1. ItemOutcome(ProcessOne(r, j.steps, j.inbox, j.legacy, j.there), r,
                          CHOOSE l \in r.library : TRUE, j.steps, j.inbox, j.legacy, j.there)
          BY <1>1, <2>1, ItemRuns
        <5> QED
          BY <2>6, <4>1, <5>1, Zenon
      <4>4. CASE j.out = Failed("package")
        BY <2>5, <4>4, Zenon
      <4>5. CASE j.out = Acked /\ r.library # {} /\ lib.mode = "takein"
        <5>1. (lib.mode = "takein") # (j.event.step = "takein")
          <6>1. lib.mode = "takein" /\ j.event.step # "takein"
            BY <2>9, <4>5
          <6> QED
            BY <6>1, Zenon
        <5>2. RightlyDropped(j.event, j.records, j.steps, r.library, lib)
          BY <4>5, <5>1, Zenon DEF RightlyDropped
        <5> QED
          BY <2>4, <4>5, <5>2, Zenon DEF lib
      <4>6. CASE \E x : /\ j.out = RunOf("store", "package", x, {}) /\ r.library = {}
                        /\ x[1].file \in j.there /\ ReadOf(x, j.legacy)
        <5>1. PICK x : /\ j.out = RunOf("store", "package", x, {}) /\ r.library = {}
                       /\ x[1].file \in j.there /\ ReadOf(x, j.legacy)
          BY <4>6
        <5>2. Range(x) # {} /\ CopiesAreCopies(Range(x), j.inbox)
          BY <1>1, <5>1, ReadAnyway
        <5>3. "store" \notin {"acked", "failed"} /\ "store" # "takein"
          OBVIOUS
        <5> QED
          BY <1>1, <4>1, <4>2, <5>1, <5>2, <5>3, RunLands
      <4>7. CASE \E x, h : /\ h \in {j.inbox, j.legacy} /\ (HasHandoff(j.inbox) => h = j.inbox)
                           /\ HasHandoff(h) \/ j.steps.transcode # "done"
                           /\ x[1].file \in j.there /\ ReadOf(x, h)
                           /\ ItemLibrary(r) = "read" /\ lib.mode # "takein"
                           /\ j.out = RunOf(ModeOf(lib), "package", x, FoldersOf(lib))
        <5> DEFINE mode == ModeOf(lib)
        <5>1. PICK x, h : /\ h \in {j.inbox, j.legacy} /\ (HasHandoff(j.inbox) => h = j.inbox)
                          /\ HasHandoff(h) \/ j.steps.transcode # "done"
                          /\ x[1].file \in j.there /\ ReadOf(x, h)
                          /\ ItemLibrary(r) = "read" /\ lib.mode # "takein"
                          /\ j.out = RunOf(mode, "package", x, FoldersOf(lib))
          BY <4>7, Zenon
        <5>2. mode \notin {"acked", "failed", "store", "takein"}
          BY <2>7, <5>1 DEF BUILD_MODES, ModeOf
        <5> HIDE DEF mode
        <5>3. Range(x) # {} /\ CopiesAreCopies(Range(x), j.inbox)
          BY <1>1, <5>1, ReadAnyway
        <5>4. /\ r.library # {} /\ WorksInItsFolders(lib, lib.versionId, FoldersOf(lib)) /\ AnItemsOwn(lib)
          BY <2>7, <5>1
        <5>5. j.inbox.contract # {} => IsTheContracts(x, j.inbox)
          BY <5>1 DEF HasHandoff, ReadOf
        <5>6. j.steps.transcode = "done" => HasHandoff(j.inbox) \/ HasHandoff(j.legacy)
          BY <5>1
        <5>7. mode \notin {"acked", "failed"} /\ mode # "store" /\ mode # "takein"
          BY <5>2
        <5> QED
          BY <1>1, <4>1, <4>2, <5>1, <5>3, <5>4, <5>5, <5>6, <5>7, RunLands
      <4> QED
        BY <4>3, <4>4, <4>5, <4>6, <4>7, Zenon DEF ItemOutcome
    <3> QED
      BY <3>3, <3>4
  <2> QED
    BY <1>1, <2>8, <2>9
<1> QED
  BY <1>2, <1>3

IsExtraJob(j) ==
  /\ j.kind = "extra" /\ j.event.object = TRUE /\ IsInbox(j.inbox)
  /\ \/ j.records = {}
     \/ \E r : /\ j.records = {r} /\ IsRecord(r, j.event.itemId)
               /\ r.removed => r.state = "removed"
  /\ j.out = HandleExtra(j.event, j.records, j.inbox, NoInbox("legacy"), j.there)

\* Each event of an extra lands.
LEMMA ExtraTold ==
  ASSUME NEW j, IsExtraJob(j)
  PROVE  LandsTold(j)
<1> DEFINE record == TheRecord(j)
           lib == TheBlock(j)
           id == j.event.itemId
           legacy == NoInbox("legacy")
           runs == j.out.does \notin {"acked", "failed"}
<1>1. /\ j.kind = "extra" /\ j.event.object = TRUE /\ IsInbox(j.inbox)
      /\ j.out = HandleExtra(j.event, j.records, j.inbox, legacy, j.there)
  BY DEF IsExtraJob
<1>2. legacy.contract = {} /\ IsInbox(legacy)
  BY DEF NoInbox, WorkInbox, IsInbox
<1> HIDE DEF legacy
<1>3. Lands(j, runs, record.library, lib, id) /\ ExtraLands(j, record) => LandsTold(j)
  <2>1. j.kind # "event"
    BY <1>1
  <2> QED
    BY <2>1, Zenon DEF LandsTold, TheBlock, TheRecord
<1>4. ASSUME j.out = Acked \/ \E step : j.out = Failed(step), ExtraLands(j, record)  PROVE LandsTold(j)
  <2>1. j.out.does \in {"acked", "failed"} /\ Lands(j, FALSE, record.library, lib, id)
    <3> HIDE DEF record, lib, id
    <3> QED
      BY <1>4, StoppedLands
  <2>2. runs = FALSE
    BY <2>1
  <2> QED
    BY <1>3, <1>4, <2>1, <2>2, Zenon
<1>5. ASSUME \E step : j.out = Failed(step)  PROVE LandsTold(j)
  <2>1. j.out.does # "acked"
    BY <1>5, OutcomesAre
  <2> QED
    BY <1>4, <1>5, <2>1, Zenon DEF ExtraLands
<1>6. CASE j.records = {} \/ ParseExtraId(j.event) = {}
  <2>1. j.out = Acked
    BY <1>1, <1>6 DEF HandleExtra
  <2>2. j.records = {} \/ id \notin UUIDS
    BY <1>1, <1>6 DEF ParseExtraId
  <2>3. ExtraLands(j, record)
    BY <2>2, Zenon DEF ExtraLands
  <2> QED
    BY <1>4, <2>1, <2>3
<1>7. CASE j.records # {} /\ ParseExtraId(j.event) # {}
  <2>1. PICK r : /\ j.records = {r} /\ IsRecord(r, id)
                 /\ r.removed => r.state = "removed"
    BY <1>7 DEF IsExtraJob
  <2>2. record = r
    BY <2>1 DEF TheRecord
  <2>3. id \in UUIDS
    BY <1>7 DEF ParseExtraId
  <2>4. lib = CHOOSE l \in r.library : TRUE
    BY <2>2 DEF TheBlock
  <2>5. j.out = IF r.removed \/ r.state \in {"missing", "ready"} THEN Acked
                ELSE ProcessExtra(r, j.event, j.inbox, legacy, j.there)
    BY <1>1, <1>7, <2>1 DEF HandleExtra
  <2>6. CASE r.removed \/ r.state \in {"missing", "ready"}
    <3>1. j.out = Acked
      BY <2>5, <2>6
    <3>2. record.state \in {"removed", "missing", "ready"}
      <4> HIDE DEF record
      <4> QED
        BY <2>1, <2>2, <2>6
    <3>3. ExtraLands(j, record)
      BY <3>2, Zenon DEF ExtraLands
    <3> QED
      BY <1>4, <3>1, <3>3
  <2>7. CASE ~ (r.removed \/ r.state \in {"missing", "ready"})
    <3> HIDE DEF record, lib, runs
    <3>1. j.out = ProcessExtra(r, j.event, j.inbox, legacy, j.there)
      BY <2>5, <2>7
    <3>2. /\ ExtraLibrary(r) = "none" <=> r.library = {}
          /\ ExtraLibrary(r) \in {"none", "read", "refused"}
          /\ ExtraLibrary(r) = "read" => WorksInItsFolders(lib, id, FoldersOf(lib))
      <4> HIDE DEF id
      <4> QED
        BY <2>1, <2>3, <2>4, ExtraRead
    <3>3. ASSUME NEW mode, mode \in {"extra", "store"}, NEW x, NEW into,
                 j.out = RunOf(mode, "package", x, into), x[1].file \in j.there,
                 Range(x) # {}, CopiesAreCopies(Range(x), j.inbox),
                 mode = "store" <=> r.library = {},
                 r.library # {} => WorksInItsFolders(lib, id, into)
          PROVE  LandsTold(j)
      <4>1. j.out.does = mode /\ j.out.inputs = x /\ j.out.into = into
        BY <3>3 DEF RunOf
      <4>2. (j.out.does = "store") = (r.library = {})
        <5>1. j.out.does = "store" <=> r.library = {}
          BY <3>3, <4>1, Zenon
        <5> QED
          BY <5>1, Zenon
      <4>3. RunsFromWhatIsThere(runs, r.library, j.out, j.there)
        BY <3>3, <4>1, <4>2, Zenon DEF RunsFromWhatIsThere
      <4>4. Lands(j, runs, r.library, lib, id)
        BY <3>3, <4>1, <4>3, Zenon DEF Lands
      <4>5. j.out.does # "acked"
        BY <3>3, <4>1
      <4>6. ExtraLands(j, record)
        BY <4>5, Zenon DEF ExtraLands
      <4> QED
        BY <1>3, <2>2, <4>4, <4>6, Zenon
    <3>4. CASE ExtraLibrary(r) = "refused"
      <4>1. j.out = Failed("package")
        BY <3>1, <3>4 DEF ProcessExtra
      <4> QED
        BY <1>5, <4>1, Zenon
    <3>5. CASE ExtraLibrary(r) = "read"
      <4> DEFINE h == Handoff(j.inbox, legacy)
      <4>1. j.out = ProcessExtraLibrary(r, lib, j.inbox, legacy, j.there)
        BY <2>4, <3>1, <3>5 DEF ProcessExtra
      <4>2. h \in {j.inbox, legacy} /\ IsInbox(h)
        BY <1>1, <1>2 DEF Handoff
      <4> HIDE DEF h
      <4>3. j.out = IF r.path = "none" THEN Failed("package")
                    ELSE Started("extra", "package", ResolveInputs(h, j.there), FoldersOf(lib), j.there)
        BY <4>1, Zenon DEF ProcessExtraLibrary, h
      <4>4. CASE j.out = Failed("package")
        BY <1>5, <4>4, Zenon
      <4>5. CASE j.out # Failed("package")
        <5>1. j.out = Started("extra", "package", ResolveInputs(h, j.there), FoldersOf(lib), j.there)
          BY <4>3, <4>5, Zenon
        <5>2. \/ Started("extra", "package", ResolveInputs(h, j.there), FoldersOf(lib), j.there) = Failed("package")
              \/ \E x : /\ x[1].file \in j.there /\ ReadOf(x, h)
                        /\ Started("extra", "package", ResolveInputs(h, j.there), FoldersOf(lib), j.there)
                            = RunOf("extra", "package", x, FoldersOf(lib))
          BY <4>2, ReadRuns
        <5>3. PICK x : x[1].file \in j.there /\ ReadOf(x, h) /\ j.out = RunOf("extra", "package", x, FoldersOf(lib))
          BY <4>5, <5>1, <5>2, Zenon
        <5>4. Range(x) # {} /\ CopiesAreCopies(Range(x), j.inbox)
          BY <1>2, <4>2, <5>3, ReadAnyway
        <5>5. r.library # {}
          BY <3>2, <3>5
        <5> QED
          BY <3>2, <3>3, <3>5, <5>3, <5>4, <5>5
      <4> QED
        BY <4>4, <4>5
    <3>6. CASE ExtraLibrary(r) = "none"
      <4>1. r.library = {}
        BY <3>2, <3>6
      <4>2. CASE j.out = Failed("package")
        BY <1>5, <4>2, Zenon
      <4>3. CASE j.out # Failed("package")
        <5>1. j.out = Started("store", "package", ResolveInputs(legacy, j.there), {}, j.there)
          BY <3>1, <3>6, <4>3 DEF ProcessExtra
        <5>2. \/ Started("store", "package", ResolveInputs(legacy, j.there), {}, j.there) = Failed("package")
              \/ \E x : /\ x[1].file \in j.there /\ ReadOf(x, legacy)
                        /\ Started("store", "package", ResolveInputs(legacy, j.there), {}, j.there)
                            = RunOf("store", "package", x, {})
          BY <1>2, ReadRuns
        <5>3. PICK x : x[1].file \in j.there /\ ReadOf(x, legacy) /\ j.out = RunOf("store", "package", x, {})
          BY <4>3, <5>1, <5>2, Zenon
        <5>4. Range(x) # {} /\ CopiesAreCopies(Range(x), j.inbox)
          BY <1>2, <5>3, ReadAnyway
        <5> QED
          BY <3>3, <4>1, <5>3, <5>4
      <4> QED
        BY <4>2, <4>3
    <3> QED
      BY <3>2, <3>4, <3>5, <3>6
  <2> QED
    BY <2>6, <2>7
<1> QED
  BY <1>6, <1>7

\* The handoffs of the specification are handoffs.
LEMMA InboxesAre ==
  /\ \A inbox \in Inboxes : IsInbox(inbox)
  /\ \A legacy \in Legacies : legacy.contract = {}
  /\ \A name : NoInbox(name).contract = {} /\ IsInbox(NoInbox(name))
  /\ \A name, files : WorkInbox(name, {}, files).contract = {} /\ IsInbox(WorkInbox(name, {}, files))
<1>1. \A name, contract, files : WorkInbox(name, contract, files).contract = contract
  BY DEF WorkInbox
<1>2. \A name, files : WorkInbox(name, {}, files).contract = {} /\ IsInbox(WorkInbox(name, {}, files))
  BY <1>1, Zenon DEF IsInbox
<1>3. \A name : NoInbox(name).contract = {} /\ IsInbox(NoInbox(name))
  BY <1>2, Zenon DEF NoInbox
<1>4. \A legacy \in Legacies : legacy.contract = {}
  BY <1>2, <1>3 DEF Legacies
<1>5. ASSUME NEW inbox \in Inboxes  PROVE IsInbox(inbox)
  <2>1. PICK c, files :
          /\ inbox = WorkInbox("own", c, files)
          /\ c = {} \/ \E contract \in Contracts : c = {contract}
    BY SMT DEF Inboxes
  <2>2. inbox.contract = c
    BY <1>1, <2>1, Zenon
  <2>3. CASE c = {}
    BY <2>2, <2>3, Zenon DEF IsInbox
  <2>4. CASE c # {}
    <3>1. PICK contract \in Contracts : c = {contract}
      BY <2>1, <2>4
    <3>2. PICK v, rungs : rungs \in UpTo(2, Rungs) /\ contract = [version |-> v, video |-> rungs]
      BY <3>1, SMT DEF Contracts
    <3>3. PICK k \in 0 .. 2 : rungs \in [1 .. k -> Rungs]
      BY <3>2 DEF UpTo
    <3>4. rungs \in Seq(Rungs)
      <4> HIDE DEF Rungs
      <4> QED
        BY <3>3
    <3> DEFINE x == [version |-> v, video |-> rungs]
    <3>5. x.video \in Seq(Rungs)
      BY <3>4
    <3>6. inbox.contract = {x}
      BY <2>2, <3>1, <3>2
    <3> HIDE DEF x
    <3> QED
      BY <3>5, <3>6, Zenon DEF IsInbox
  <2> QED
    BY <2>3, <2>4
<1> QED
  BY <1>2, <1>3, <1>4, <1>5

\* The records of the specification are records.
LEMMA RecordsAre ==
  ASSUME NEW id, NEW type, NEW state, NEW library,
         \/ library = {}
         \/ \E lib : library = {lib} /\ PathsAre(lib)
  PROVE  /\ IsRecord(WorkRecord(library, type, id, state), id)
         /\ WorkRecord(library, type, id, state).removed =>
              WorkRecord(library, type, id, state).state = "removed"
<1> DEFINE r == WorkRecord(library, type, id, state)
<1>1. r.id = id /\ r.library = library /\ r.removed = (state = "removed") /\ r.state = state
  BY DEF WorkRecord
<1> HIDE DEF r
<1>2. IsRecord(r, id)
  BY <1>1, Zenon DEF IsRecord
<1>3. r.removed => r.state = "removed"
  BY <1>1, Zenon
<1> QED
  BY <1>2, <1>3 DEF r

\* Each job of an item's event lands.
LEMMA EventJob ==
  ASSUME ReadEvent
  PROVE  JobLands'
<1>1. PICK step \in {"package", "takein"}, steps \in StepsOf :
       \/ \E mode \in BUILD_MODES \cup {"none"}, inbox \in Inboxes, legacy \in Legacies :
          \E there \in There(inbox, legacy), library \in {{}, {Block(mode)}} :
            job' = Read(WorkEvent(step, "i"), {WorkRecord(library, "none", "i", "new")},
                        steps, inbox, legacy, there)
       \/ \E mode \in {"establish", "takein", "repackage"}, type \in {"episode", "movie"} :
          \E lib \in OneOff(Block(mode)) :
            job' = Read(WorkEvent(step, "i"), {WorkRecord({lib}, type, "i", "new")}, steps,
                        NoInbox("own"), NoInbox("legacy"), {Original})
       \/ \E event \in OddEvents(step) :
            job' = Read(event, {}, steps, NoInbox("own"), NoInbox("legacy"), {Original})
  BY Zenon DEF ReadEvent
<1>2. ASSUME NEW event, event.step = step, NEW records,
             \/ records = {}
             \/ event = WorkEvent(step, "i") /\ \E r : records = {r} /\ IsRecord(r, "i"),
             NEW inbox, IsInbox(inbox), NEW legacy, legacy.contract = {}, NEW there,
             job' = Read(event, records, steps, inbox, legacy, there)
      PROVE  JobLands'
  <2> DEFINE j == Read(event, records, steps, inbox, legacy, there)
  <2>1. /\ j.kind = "event" /\ j.event = event /\ j.records = records /\ j.steps = steps /\ j.inbox = inbox
        /\ j.legacy = legacy /\ j.there = there
        /\ j.out = HandleMessage(event, records, steps, inbox, legacy, there)
    BY DEF Read
  <2>2. WorkEvent(step, "i").object = TRUE /\ WorkEvent(step, "i").itemId # "none"
    BY DEF WorkEvent
  <2> HIDE DEF j
  <2>3. IsEventJob(j)
    <3>1. j.event.step \in {"package", "takein"} /\ j.steps \in StepsOf
      BY <1>2, <2>1
    <3>2. \/ j.records = {}
          \/ /\ j.event.object = TRUE /\ j.event.itemId # "none"
             /\ \E r : j.records = {r} /\ IsRecord(r, "i")
      BY <1>2, <2>1, <2>2, Zenon
    <3> QED
      BY <1>2, <2>1, <3>1, <3>2, Zenon DEF IsEventJob
  <2>4. LandsTold(j)
    BY <2>3, EventTold
  <2>5. job' = j
    BY <1>2 DEF j
  <2> QED
    BY <2>4, <2>5, Zenon DEF LandsTold, JobLands
<1>3. \A id : WorkEvent(step, id).step = step
  BY DEF WorkEvent
<1>4. CASE \E mode \in BUILD_MODES \cup {"none"}, inbox \in Inboxes, legacy \in Legacies :
           \E there \in There(inbox, legacy), library \in {{}, {Block(mode)}} :
             job' = Read(WorkEvent(step, "i"), {WorkRecord(library, "none", "i", "new")},
                         steps, inbox, legacy, there)
  <2>1. PICK mode, inbox, legacy, there, library :
          /\ inbox \in Inboxes /\ legacy \in Legacies /\ library \in {{}, {Block(mode)}}
          /\ job' = Read(WorkEvent(step, "i"), {WorkRecord(library, "none", "i", "new")},
                         steps, inbox, legacy, there)
    BY <1>4, Zenon
  <2>2. library = {} \/ \E lib : library = {lib} /\ PathsAre(lib)
    <3>1. PathsAre(Block(mode))
      BY BlocksHavePaths
    <3> QED
      BY <2>1, <3>1, Zenon
  <2>3. IsRecord(WorkRecord(library, "none", "i", "new"), "i")
    BY <2>2, RecordsAre
  <2>4. IsInbox(inbox) /\ legacy.contract = {}
    BY <2>1, InboxesAre
  <2> QED
    BY <1>2, <1>3, <2>1, <2>3, <2>4
<1>5. CASE \E mode \in {"establish", "takein", "repackage"}, type \in {"episode", "movie"} :
           \E lib \in OneOff(Block(mode)) :
             job' = Read(WorkEvent(step, "i"), {WorkRecord({lib}, type, "i", "new")}, steps,
                         NoInbox("own"), NoInbox("legacy"), {Original})
  <2>1. PICK mode, type, lib :
          /\ lib \in OneOff(Block(mode))
          /\ job' = Read(WorkEvent(step, "i"), {WorkRecord({lib}, type, "i", "new")}, steps,
                         NoInbox("own"), NoInbox("legacy"), {Original})
    BY <1>5, Zenon
  <2>2. PathsAre(lib)
    BY <2>1, BlocksHavePaths
  <2>3. IsRecord(WorkRecord({lib}, type, "i", "new"), "i")
    BY <2>2, RecordsAre
  <2>4. IsInbox(NoInbox("own")) /\ NoInbox("legacy").contract = {}
    BY InboxesAre
  <2> QED
    BY <1>2, <1>3, <2>1, <2>3, <2>4
<1>6. CASE \E event \in OddEvents(step) :
             job' = Read(event, {}, steps, NoInbox("own"), NoInbox("legacy"), {Original})
  <2>1. PICK event \in OddEvents(step) :
          job' = Read(event, {}, steps, NoInbox("own"), NoInbox("legacy"), {Original})
    BY <1>6, Zenon
  <2>2. event.step = step
    <3> DEFINE e == WorkEvent(step, "i")
    <3>1. DOMAIN e = {"object", "itemId", "step", "parentId"}
      BY DEF WorkEvent
    <3>2. e.step = step
      BY <1>3
    <3> HIDE DEF e
    <3>3. [e EXCEPT !.object = FALSE].step = e.step
      BY <3>1, Zenon
    <3>4. event \in {WorkEvent(step, "none"), [e EXCEPT !.object = FALSE], e}
      BY <2>1, Zenon DEF OddEvents, e
    <3> QED
      BY <1>3, <3>2, <3>3, <3>4, Zenon
  <2>3. IsInbox(NoInbox("own")) /\ NoInbox("legacy").contract = {}
    BY InboxesAre
  <2> QED
    BY <1>2, <2>1, <2>2, <2>3
<1> QED
  BY <1>1, <1>4, <1>5, <1>6

\* Each job of an extra's event lands.
LEMMA ExtraJob ==
  ASSUME ReadExtra
  PROVE  JobLands'
<1>1. PICK id \in {"e", "no", "none"}, state \in {"new", "placed", "pathless", "removed", "missing", "ready"},
           library \in {{}} \cup {{lib} : lib \in {ExtraBlock} \cup OneOff(ExtraBlock)},
           inbox \in {NoInbox("own"), WorkInbox("own", {}, {"prepared"})}, known \in BOOLEAN :
        LET event == WorkEvent("package", id)
            records == IF known THEN {WorkRecord(library, "none", id, state)} ELSE {}
            there == Files(inbox) \cup {Original}
        IN job' = [kind |-> "extra", event |-> event, records |-> records, inbox |-> inbox, there |-> there,
                   out |-> HandleExtra(event, records, inbox, NoInbox("legacy"), there)]
  BY Zenon DEF ReadExtra
<1> DEFINE event == WorkEvent("package", id)
           records == IF known THEN {WorkRecord(library, "none", id, state)} ELSE {}
           there == Files(inbox) \cup {Original}
           j == [kind |-> "extra", event |-> event, records |-> records, inbox |-> inbox, there |-> there,
                 out |-> HandleExtra(event, records, inbox, NoInbox("legacy"), there)]
<1>2. job' = j
  BY <1>1
<1>3. /\ j.kind = "extra" /\ j.event = event /\ j.records = records /\ j.inbox = inbox /\ j.there = there
      /\ j.out = HandleExtra(event, records, inbox, NoInbox("legacy"), there)
  <2> HIDE DEF records, event, there
  <2> QED
    OBVIOUS
<1>4. event.object = TRUE /\ event.itemId = id
  BY DEF WorkEvent
<1>5. IsInbox(inbox)
  BY InboxesAre
<1>6. library = {} \/ \E lib : library = {lib} /\ PathsAre(lib)
  <2>1. CASE library # {}
    <3>1. PICK lib \in {ExtraBlock} \cup OneOff(ExtraBlock) : library = {lib}
      BY <1>1, <2>1
    <3>2. PathsAre(lib)
      BY BlocksHavePaths
    <3> QED
      BY <3>1, <3>2
  <2> QED
    BY <2>1
<1> HIDE DEF j, event, there
<1>7. \/ records = {}
      \/ \E r : /\ records = {r} /\ IsRecord(r, id)
                /\ r.removed => r.state = "removed"
  <2> DEFINE r == WorkRecord(library, "none", id, state)
  <2>1. IsRecord(r, id) /\ (r.removed => r.state = "removed")
    BY <1>6, RecordsAre
  <2> HIDE DEF r
  <2>2. records = {} \/ records = {r}
    BY DEF r
  <2> HIDE DEF records
  <2> QED
    BY <2>1, <2>2, Zenon
<1> HIDE DEF records
<1>8. IsExtraJob(j)
  BY <1>3, <1>4, <1>5, <1>7, Zenon DEF IsExtraJob
<1>9. LandsTold(j)
  BY <1>8, ExtraTold
<1> QED
  BY <1>9, <1>2, Zenon DEF LandsTold, JobLands

\* The other jobs are none of an event.
LEMMA OtherEvents ==
  ASSUME Next, ~ ReadEvent, ~ ReadExtra
  PROVE  job'.kind \notin {"event", "extra"}
BY PlanKinds, ReadingKinds, WritingKinds DEF Next, Reading

\* THEOREM: wherever an event, its record and its handoff come from, a run
\* works in its own version's folders, from a top rung that is there, takes
\* for a copy only what is one, and an event is dropped only where nothing is
\* left to do for it (parse_item_library, resolve_inputs, _handle_message,
\* _handle_extra).
THEOREM JobAlwaysLands == Spec => []JobLands
<1>1. Init => JobLands
  BY DEF Init, JobLands
<1>2. JobLands /\ [Next]_job => JobLands'
  <2> SUFFICES ASSUME JobLands, [Next]_job  PROVE JobLands'
    OBVIOUS
  <2>1. CASE UNCHANGED job
    BY <2>1, Zenon DEF JobLands
  <2>2. CASE ReadEvent
    BY <2>2, EventJob
  <2>3. CASE ReadExtra
    BY <2>3, ExtraJob
  <2>4. CASE job'.kind \notin {"event", "extra"}
    BY <2>4 DEF JobLands
  <2> QED
    BY <2>1, <2>2, <2>3, <2>4, OtherEvents
<1> QED
  BY <1>1, <1>2, PTL DEF Spec

\* Where the first n of s were kept in t: at these places, in their order,
\* and at each of them.
KeptAt(t, s, places, at, n) ==
  /\ at \in Seq(1 .. n) /\ Len(at) = Len(t)
  /\ \A i \in 1 .. Len(t) : at[i] \in places /\ t[i] = s[at[i]]
  /\ \A i, j \in 1 .. Len(t) : i < j => at[i] < at[j]
  /\ \A k \in places \cap (1 .. n) : \E i \in 1 .. Len(t) : at[i] = k

\* One more is looked at.
LEMMA KeptMore ==
  ASSUME NEW B, NEW s \in Seq(B), NEW places, NEW n \in 1 .. Len(s),
         NEW t \in Seq(B), NEW at, KeptAt(t, s, places, at, n - 1)
  PROVE  /\ n \in places => KeptAt(Append(t, s[n]), s, places, Append(at, n), n)
         /\ n \notin places => KeptAt(t, s, places, at, n)
<1> DEFINE L == Len(t)
           more == Append(t, s[n])
           put == Append(at, n)
<1>1. /\ L \in Nat /\ n \in Nat /\ at \in Seq(1 .. n - 1) /\ Len(at) = L
      /\ \A i \in 1 .. L : at[i] \in places /\ t[i] = s[at[i]]
      /\ \A i, j \in 1 .. L : i < j => at[i] < at[j]
      /\ \A k \in places \cap (1 .. n - 1) : \E i \in 1 .. L : at[i] = k
  BY DEF KeptAt
<1>2. at \in Seq(1 .. n) /\ \A i \in 1 .. L : at[i] \in 1 .. n - 1
  BY <1>1
<1>3. \A k \in places \cap (1 .. n) : k = n \/ k \in places \cap (1 .. n - 1)
  BY <1>1
<1>4. n \notin places => KeptAt(t, s, places, at, n)
  BY <1>1, <1>2, <1>3 DEF KeptAt
<1>5. ASSUME n \in places  PROVE KeptAt(more, s, places, put, n)
  <2>1. /\ more \in Seq(B) /\ Len(more) = L + 1 /\ more[L + 1] = s[n]
        /\ \A i \in 1 .. L : more[i] = t[i]
    <3>1. s[n] \in B
      OBVIOUS
    <3> QED
      BY <3>1, AppendProperties
  <2>2. /\ put \in Seq(1 .. n) /\ Len(put) = L + 1 /\ put[L + 1] = n
        /\ \A i \in 1 .. L : put[i] = at[i]
    <3>1. n \in 1 .. n
      BY <1>1
    <3> QED
      BY <1>1, <1>2, <3>1, AppendProperties
  <2> HIDE DEF more, put
  <2>3. \A i \in 1 .. L + 1 : i = L + 1 \/ i \in 1 .. L
    BY <1>1
  <2>4. \A i \in 1 .. Len(more) : put[i] \in places /\ more[i] = s[put[i]]
    BY <1>1, <1>5, <2>1, <2>2, <2>3
  <2>5. \A i, j \in 1 .. Len(more) : i < j => put[i] < put[j]
    <3> SUFFICES ASSUME NEW i \in 1 .. L + 1, NEW j \in 1 .. L + 1, i < j  PROVE put[i] < put[j]
      BY <2>1
    <3>1. i \in 1 .. L
      BY <1>1
    <3>2. CASE j = L + 1
      BY <1>2, <2>2, <3>1, <3>2
    <3>3. CASE j \in 1 .. L
      BY <1>1, <2>2, <3>1, <3>3
    <3> QED
      BY <2>3, <3>2, <3>3
  <2>6. \A k \in places \cap (1 .. n) : \E i \in 1 .. Len(more) : put[i] = k
    <3> SUFFICES ASSUME NEW k \in places \cap (1 .. n)  PROVE \E i \in 1 .. L + 1 : put[i] = k
      BY <2>1
    <3>1. CASE k = n
      <4>1. L + 1 \in 1 .. L + 1 /\ put[L + 1] = k
        BY <1>1, <2>2, <3>1
      <4> QED
        BY <4>1
    <3>2. CASE k \in places \cap (1 .. n - 1)
      <4>1. PICK i \in 1 .. L : at[i] = k
        BY <1>1, <3>2
      <4>2. i \in 1 .. L + 1 /\ put[i] = k
        BY <1>1, <2>2, <4>1
      <4> QED
        BY <4>2
    <3> QED
      BY <1>3, <3>1, <3>2
  <2> QED
    BY <2>1, <2>2, <2>4, <2>5, <2>6 DEF KeptAt
<1> QED
  BY <1>4, <1>5

\* What is kept is what the sequence has at these places, in its order.
LEMMA KeptIs ==
  ASSUME NEW B, NEW s \in Seq(B), NEW places
  PROVE  Kept(s, places) \in Seq(B) /\ \E at : KeptAt(Kept(s, places), s, places, at, Len(s))
<1> DEFINE N == Len(s)
           Good(f) == f = [n \in 0 .. N |->
                         IF n = 0 THEN <<>> ELSE IF n \in places THEN Append(f[n - 1], s[n]) ELSE f[n - 1]]
           some == CHOOSE f : Good(f)
           step == [n \in 1 .. N |-> [t \in Seq(B) |-> IF n \in places THEN Append(t, s[n]) ELSE t]]
<1>1. N \in Nat /\ (\A n \in 1 .. N : s[n] \in B) /\ <<>> \in Seq(B)
  OBVIOUS
<1>2. Kept(s, places) = some[N]
  BY Zenon DEF Kept
<1>3. step \in [1 .. N -> [Seq(B) -> Seq(B)]]
  <2>1. \A n \in 1 .. N : \A t \in Seq(B) : Append(t, s[n]) \in Seq(B)
    BY <1>1
  <2> QED
    BY <2>1
<1>4. PICK g : Carries(g, N, Seq(B), <<>>, step)
  <2> HIDE DEF step, N
  <2> QED
    BY <1>1, <1>3, CarriedOut
<1>5. Good(g)
  <2>1. g \in [0 .. N -> Seq(B)] /\ g[0] = <<>> /\ \A n \in 1 .. N : g[n] = step[n][g[n - 1]]
    BY <1>4, Zenon DEF Carries
  <2>2. \A n \in 1 .. N : \A t \in Seq(B) : step[n][t] = IF n \in places THEN Append(t, s[n]) ELSE t
    OBVIOUS
  <2> HIDE DEF N, step
  <2>3. \A n \in 1 .. N : g[n - 1] \in Seq(B)
    BY <1>1, <2>1
  <2>4. \A n \in 0 .. N : n = 0 \/ n \in 1 .. N
    BY <1>1
  <2>5. \A n \in 1 .. N : n # 0
    BY <1>1
  <2>6. \A n \in 0 .. N : g[n] = IF n = 0 THEN <<>> ELSE IF n \in places THEN Append(g[n - 1], s[n]) ELSE g[n - 1]
    BY <2>1, <2>2, <2>3, <2>4, <2>5, Zenon
  <2>7. DOMAIN g = 0 .. N /\ g = [n \in 0 .. N |-> g[n]]
    BY <2>1
  <2> QED
    BY <2>6, <2>7, Zenon
<1>6. Good(some)
  <2> HIDE DEF Good
  <2> QED
    BY <1>5
<1> HIDE DEF some, step
<1>7. some[0] = <<>> /\ \A n \in 1 .. N : some[n] = IF n \in places THEN Append(some[n - 1], s[n]) ELSE some[n - 1]
  <2>1. \A n \in 1 .. N : n \in 0 .. N /\ n # 0
    BY <1>1
  <2>2. 0 \in 0 .. N
    BY <1>1
  <2> HIDE DEF N
  <2> QED
    BY <1>6, <2>1, <2>2, Zenon
<1> HIDE DEF Good
<1> DEFINE Fits(n) == some[n] \in Seq(B) /\ \E at : KeptAt(some[n], s, places, at, n)
           bad == {n \in 0 .. N : ~ Fits(n)}
<1>8. Fits(0)
  <2>1. KeptAt(<<>>, s, places, <<>>, 0)
    BY DEF KeptAt
  <2> QED
    BY <1>1, <1>7, <2>1
<1>9. ASSUME NEW n \in 1 .. N, Fits(n - 1)  PROVE Fits(n)
  <2>1. PICK at : KeptAt(some[n - 1], s, places, at, n - 1)
    BY <1>9
  <2>2. /\ n \in places => KeptAt(Append(some[n - 1], s[n]), s, places, Append(at, n), n)
        /\ n \notin places => KeptAt(some[n - 1], s, places, at, n)
    BY <1>9, <2>1, KeptMore
  <2>3. Append(some[n - 1], s[n]) \in Seq(B)
    BY <1>1, <1>9
  <2>4. some[n] = IF n \in places THEN Append(some[n - 1], s[n]) ELSE some[n - 1]
    BY <1>7
  <2> QED
    BY <1>9, <2>2, <2>3, <2>4, Zenon
<1> HIDE DEF Fits
<1>10. bad = {}
  <2> SUFFICES ASSUME bad # {}  PROVE FALSE
    OBVIOUS
  <2>1. bad \subseteq Nat
    OBVIOUS
  <2>2. PICK m \in bad : \A k \in bad : m <= k
    <3> HIDE DEF bad
    <3> QED
      BY <2>1, LeastNumber
  <2>3. m # 0
    BY <1>8
  <2>4. m \in 1 .. N /\ m - 1 \in 0 .. N /\ ~ (m <= m - 1)
    BY <1>1, <2>3
  <2>5. Fits(m - 1)
    BY <2>2, <2>4
  <2>6. Fits(m)
    BY <1>9, <2>4, <2>5
  <2> QED
    BY <2>2, <2>6
<1>11. Fits(N)
  <2>1. N \in 0 .. N
    BY <1>1
  <2> QED
    BY <1>10, <2>1
<1> QED
  BY <1>2, <1>11 DEF Fits

\* Places in their order are a rising sequence of all of them.
LEMMA InOrderIs ==
  ASSUME NEW N \in Nat, NEW places \in SUBSET (1 .. N)
  PROVE  LET o == InOrder(places, N)
         IN /\ o \in Seq(places) /\ \A k \in places : \E i \in 1 .. Len(o) : o[i] = k
            /\ \A i, j \in 1 .. Len(o) : i < j => o[i] < o[j]
<1> DEFINE s == [i \in 1 .. N |-> i]
           o == InOrder(places, N)
<1>1. s \in Seq(1 .. N) /\ Len(s) = N
  OBVIOUS
<1>2. \A i \in 1 .. N : s[i] = i
  OBVIOUS
<1>3. o = Kept(s, places)
  BY DEF InOrder
<1> HIDE DEF s, o
<1>4. PICK at : o \in Seq(1 .. N) /\ KeptAt(o, s, places, at, N)
  BY <1>1, <1>3, KeptIs
<1>5. \A i \in 1 .. Len(o) : at[i] \in 1 .. N
  BY <1>4 DEF KeptAt
<1>6. \A i \in 1 .. Len(o) : o[i] = at[i] /\ o[i] \in places
  BY <1>2, <1>4, <1>5 DEF KeptAt
<1>7. o \in Seq(places)
  <2>1. o \in [1 .. Len(o) -> places] /\ Len(o) \in Nat
    BY <1>4, <1>6
  <2> QED
    BY <2>1
<1>8. \A k \in places : \E i \in 1 .. Len(o) : o[i] = k
  BY <1>4, <1>6 DEF KeptAt
<1>9. \A i, j \in 1 .. Len(o) : i < j => o[i] < o[j]
  BY <1>4, <1>6 DEF KeptAt
<1> QED
  BY <1>7, <1>8, <1>9 DEF o

\* What the n-th takes of a list, of which these are taken.
MatchAt(wants, list, n, taken) == Match(list, wants[n].path, wants[n].bytes, taken)

\* A match is one of the list that was left, of this path or of these bytes.
MatchOf(i, list, left, path, bytes) ==
  /\ i = 0 <=> \A j \in left : list[j].path # path /\ list[j].bytes # bytes
  /\ i # 0 => i \in left
  /\ \A j \in left : list[j].path = path => i # 0 /\ list[i].path = path
  /\ i # 0 => \/ list[i].path = path
              \/ list[i].bytes = bytes /\ \A j \in left : list[j].bytes = bytes => i <= j

\* The file that is matched is one left with the path, or with the bytes.
LEMMA MatchIs ==
  ASSUME NEW list, NEW M \in Nat, DOMAIN list = 1 .. M, NEW path, NEW bytes, NEW taken
  PROVE  MatchOf(Match(list, path, bytes, taken), list, (1 .. M) \ taken, path, bytes)
<1> DEFINE left == DOMAIN list \ taken
           same == {i \in left : list[i].path = path}
           like == {i \in left : list[i].bytes = bytes}
           first(S) == CHOOSE i \in S : \A j \in S : i <= j
           at == Match(list, path, bytes, taken)
<1>1. at = IF same # {} THEN first(same) ELSE IF like # {} THEN first(like) ELSE 0
  BY DEF Match
<1>2. ASSUME NEW S, S \subseteq Nat, S # {}  PROVE first(S) \in S /\ \A j \in S : first(S) <= j
  <2>1. \E i \in S : \A j \in S : i <= j
    BY <1>2, LeastNumber
  <2> QED
    BY <2>1
<1>3. same \subseteq Nat /\ like \subseteq Nat /\ 0 \notin same /\ 0 \notin like
  OBVIOUS
<1>4. same # {} => first(same) \in same
  BY <1>2, <1>3
<1>5. like # {} => first(like) \in like /\ \A j \in like : first(like) <= j
  BY <1>2, <1>3
<1> HIDE DEF first
<1>6. \/ at \in same
      \/ same = {} /\ at \in like /\ \A j \in like : at <= j
      \/ same = {} /\ like = {} /\ at = 0
  BY <1>1, <1>4, <1>5, Zenon
<1> HIDE DEF at
<1>7. left = (1 .. M) \ taken
  OBVIOUS
<1>8. MatchOf(at, list, left, path, bytes)
  <2>1. CASE at \in same
    BY <1>3, <2>1 DEF MatchOf
  <2>2. CASE same = {} /\ at \in like /\ \A j \in like : at <= j
    BY <1>3, <2>2 DEF MatchOf
  <2>3. CASE same = {} /\ like = {} /\ at = 0
    BY <2>3 DEF MatchOf
  <2> QED
    BY <1>6, <2>1, <2>2, <2>3
<1> QED
  BY <1>7, <1>8 DEF at

\* Of the first n, each took another of the list, by a match of its own.
MatchedTo(t, ids, wants, list, n) ==
  /\ t \in Seq(Nat \X Nat)
  /\ \A i \in 1 .. Len(t) : \E m \in 1 .. n : \E T :
       MatchAt(wants, list, m, T) # 0 /\ t[i] = <<ids[m], MatchAt(wants, list, m, T)>>
  /\ \A i, j \in 1 .. Len(t) : i # j => t[i][1] # t[j][1] /\ t[i][2] # t[j][2]

\* Those that take what no other does, wherever it is left.
Sure(s, C, wants, list, N) ==
  /\ \A n \in C : s[n] # 0 /\ \A T : s[n] \notin T => MatchAt(wants, list, n, T) = s[n]
  /\ \A n, m \in C : n # m => s[n] # s[m]
  /\ \A n \in C, m \in (1 .. N) \ C : \A T : MatchAt(wants, list, m, T) # s[n]

SureTaken(t, ids, s, C, n) == \A m \in C \cap (1 .. n) : \E i \in 1 .. Len(t) : t[i] = <<ids[m], s[m]>>

\* What the second of each pair is.
Seconds(t) == {p[2] : p \in Range(t)}

Taking(t, ids, wants, list, n) ==
  IF MatchAt(wants, list, n, Seconds(t)) = 0 THEN t
  ELSE Append(t, <<ids[n], MatchAt(wants, list, n, Seconds(t))>>)

\* The second parts of a sequence of pairs.
LEMMA SecondsAre ==
  ASSUME NEW t \in Seq(Nat \X Nat)
  PROVE  \A x : x \in Seconds(t) <=> \E i \in 1 .. Len(t) : t[i][2] = x
<1>1. DOMAIN t = 1 .. Len(t)
  OBVIOUS
<1>2. \A x : x \in Seconds(t) <=> \E p \in Range(t) : x = p[2]
  BY DEF Seconds
<1>3. \A p : p \in Range(t) <=> \E i \in 1 .. Len(t) : p = t[i]
  BY <1>1, Zenon DEF Range
<1> QED
  <2> TAKE x
  <2>1. ASSUME x \in Seconds(t)  PROVE \E i \in 1 .. Len(t) : t[i][2] = x
    <3>1. PICK p \in Range(t) : x = p[2]
      BY <1>2, <2>1, Zenon
    <3>2. PICK i \in 1 .. Len(t) : p = t[i]
      BY <1>3, Zenon
    <3> QED
      BY <3>1, <3>2, Zenon
  <2>2. ASSUME NEW i \in 1 .. Len(t), t[i][2] = x  PROVE x \in Seconds(t)
    <3>1. t[i] \in Range(t)
      BY <1>3, Zenon
    <3> QED
      BY <1>2, <2>2, <3>1, Zenon
  <2> QED
    BY <2>1, <2>2, Zenon

\* One more takes its match.
LEMMA MatchedMore ==
  ASSUME NEW ids \in Seq(Nat), \A i, j \in 1 .. Len(ids) : i # j => ids[i] # ids[j],
         NEW wants, NEW list, NEW M \in Nat, DOMAIN list = 1 .. M,
         NEW n \in 1 .. Len(ids), NEW t, MatchedTo(t, ids, wants, list, n - 1),
         NEW C \in SUBSET (1 .. Len(ids)), NEW s, Sure(s, C, wants, list, Len(ids)), SureTaken(t, ids, s, C, n - 1)
  PROVE  /\ MatchedTo(Taking(t, ids, wants, list, n), ids, wants, list, n)
         /\ SureTaken(Taking(t, ids, wants, list, n), ids, s, C, n)
<1> DEFINE L == Len(t)
           N == Len(ids)
           at == MatchAt(wants, list, n, Seconds(t))
           pair == <<ids[n], at>>
           more == Append(t, pair)
           Took(x, k) == \E m \in 1 .. k : \E T :
                           MatchAt(wants, list, m, T) # 0 /\ x = <<ids[m], MatchAt(wants, list, m, T)>>
<1>1. /\ t \in Seq(Nat \X Nat) /\ \A i \in 1 .. L : Took(t[i], n - 1)
      /\ \A i, j \in 1 .. L : i # j => t[i][1] # t[j][1] /\ t[i][2] # t[j][2]
  BY Zenon DEF MatchedTo
<1>2. L \in Nat /\ N \in Nat /\ n \in 1 .. N /\ n \in 1 .. n /\ (\A k \in 1 .. N : ids[k] \in Nat)
      /\ \A m \in 1 .. n - 1 : m \in 1 .. n /\ m \in 1 .. N /\ m # n
  BY <1>1
<1>3. \A x : Took(x, n - 1) => Took(x, n)
  BY <1>2, Zenon
<1> HIDE DEF Took
<1>4. \A i \in 1 .. L : t[i][2] \in Seconds(t)
  BY <1>1, SecondsAre, Zenon
<1>5. at # 0 => at \in (1 .. M) \ Seconds(t)
  BY MatchIs, Zenon DEF MatchAt, MatchOf
<1>6. n \in C => at = s[n]
  <2> SUFFICES ASSUME n \in C, s[n] \in Seconds(t)  PROVE FALSE
    BY Zenon DEF Sure
  <2>1. PICK i \in 1 .. L : t[i][2] = s[n]
    BY <1>1, SecondsAre, Zenon
  <2>2. PICK m \in 1 .. n - 1 : \E T : t[i] = <<ids[m], MatchAt(wants, list, m, T)>>
    <3>1. Took(t[i], n - 1)
      BY <1>1
    <3> QED
      BY <3>1, Zenon DEF Took
  <2>3. m \in 1 .. N /\ m # n /\ t[i][1] = ids[m] /\ \E T : MatchAt(wants, list, m, T) = s[n]
    BY <1>2, <2>1, <2>2
  <2>4. m \in C
    BY <2>3, Zenon DEF Sure
  <2>5. PICK j \in 1 .. L : t[j] = <<ids[m], s[m]>>
    BY <2>4, Zenon DEF SureTaken
  <2>6. i = j
    <3>1. t[j][1] = ids[m]
      BY <2>5
    <3> QED
      BY <1>1, <2>3, <3>1, Zenon
  <2>7. s[m] = s[n]
    BY <2>1, <2>5, <2>6
  <2> QED
    BY <2>3, <2>4, <2>7, Zenon DEF Sure
<1>7. \A m \in C \cap (1 .. n) : m = n \/ m \in C \cap (1 .. n - 1)
  BY <1>2
<1>8. CASE at = 0
  <2>1. Taking(t, ids, wants, list, n) = t
    BY <1>8 DEF Taking
  <2>2. MatchedTo(t, ids, wants, list, n)
    <3>1. \A i \in 1 .. L : Took(t[i], n)
      BY <1>1, <1>3, Zenon
    <3> QED
      BY <1>1, <3>1, Zenon DEF MatchedTo, Took
  <2>3. n \notin C
    BY <1>6, <1>8, Zenon DEF Sure
  <2>4. SureTaken(t, ids, s, C, n)
    BY <1>7, <2>3, Zenon DEF SureTaken
  <2> QED
    BY <2>1, <2>2, <2>4
<1>9. CASE at # 0
  <2>1. Taking(t, ids, wants, list, n) = more
    BY <1>9 DEF Taking
  <2>2. pair \in Nat \X Nat /\ pair[1] = ids[n] /\ pair[2] = at
    BY <1>2, <1>5, <1>9
  <2>3. Took(pair, n)
    BY <1>2, <1>9, Zenon DEF Took
  <2> HIDE DEF pair
  <2>4. /\ more \in Seq(Nat \X Nat) /\ Len(more) = L + 1 /\ more[L + 1] = pair
        /\ \A i \in 1 .. L : more[i] = t[i]
    BY <1>1, <2>2, AppendProperties
  <2> HIDE DEF more
  <2>5. \A i \in 1 .. L + 1 : i = L + 1 \/ i \in 1 .. L
    BY <1>2
  <2>6. ASSUME NEW i \in 1 .. L  PROVE t[i][1] # pair[1] /\ t[i][2] # pair[2]
    <3>1. PICK m \in 1 .. n - 1 : \E T : t[i] = <<ids[m], MatchAt(wants, list, m, T)>>
      <4>1. Took(t[i], n - 1)
        BY <1>1
      <4> QED
        BY <4>1, Zenon DEF Took
    <3>2. t[i][1] = ids[m] /\ ids[m] # ids[n]
      BY <1>2, <3>1
    <3> QED
      BY <1>4, <1>5, <1>9, <2>2, <3>2
  <2>7. \A i \in 1 .. Len(more) : Took(more[i], n)
    <3> QED
      BY <1>1, <1>3, <2>3, <2>4, <2>5
  <2>8. \A i, j \in 1 .. Len(more) : i # j => more[i][1] # more[j][1] /\ more[i][2] # more[j][2]
    <3> SUFFICES ASSUME NEW i \in 1 .. L + 1, NEW j \in 1 .. L + 1, i # j
                 PROVE  more[i][1] # more[j][1] /\ more[i][2] # more[j][2]
      BY <2>4
    <3>1. CASE i \in 1 .. L /\ j \in 1 .. L
      <4>1. more[i] = t[i] /\ more[j] = t[j]
        BY <2>4, <3>1
      <4> QED
        BY <1>1, <3>1, <4>1
    <3>2. CASE i = L + 1 /\ j \in 1 .. L
      BY <2>4, <2>6, <3>2, Zenon
    <3>3. CASE i \in 1 .. L /\ j = L + 1
      BY <2>4, <2>6, <3>3, Zenon
    <3> QED
      BY <2>5, <3>1, <3>2, <3>3
  <2>9. MatchedTo(more, ids, wants, list, n)
    BY <2>4, <2>7, <2>8, Zenon DEF MatchedTo, Took
  <2>10. SureTaken(more, ids, s, C, n)
    <3> SUFFICES ASSUME NEW m \in C \cap (1 .. n)  PROVE \E i \in 1 .. Len(more) : more[i] = <<ids[m], s[m]>>
      BY DEF SureTaken
    <3>1. CASE m = n
      <4>1. pair = <<ids[m], s[m]>>
        BY <1>6, <3>1, Zenon DEF pair
      <4>2. L + 1 \in 1 .. Len(more)
        BY <1>2, <2>4
      <4> QED
        BY <2>4, <4>1, <4>2, Zenon
    <3>2. CASE m \in C \cap (1 .. n - 1)
      <4>1. PICK i \in 1 .. L : t[i] = <<ids[m], s[m]>>
        BY <3>2, Zenon DEF SureTaken
      <4>2. i \in 1 .. Len(more) /\ more[i] = t[i]
        BY <1>2, <2>4
      <4> QED
        BY <4>1, <4>2, Zenon
    <3> QED
      BY <1>7, <3>1, <3>2
  <2> QED
    BY <2>1, <2>9, <2>10
<1> QED
  BY <1>8, <1>9

\* What was matched of these.
MatchedOf(t, ids, wants, list, C, s) ==
  /\ MatchedTo(t, ids, wants, list, Len(ids))
  /\ \A m \in C : \E i \in 1 .. Len(t) : t[i] = <<ids[m], s[m]>>

\* Each takes its match, and those that are sure take what they are sure of.
LEMMA MatchedIs ==
  ASSUME NEW ids \in Seq(Nat), \A i, j \in 1 .. Len(ids) : i # j => ids[i] # ids[j],
         NEW wants, NEW list, NEW M \in Nat, DOMAIN list = 1 .. M,
         NEW C \in SUBSET (1 .. Len(ids)), NEW s, Sure(s, C, wants, list, Len(ids))
  PROVE  MatchedOf(Matched(ids, wants, list), ids, wants, list, C, s)
<1> DEFINE N == Len(ids)
           P == Seq(Nat \X Nat)
           Next1(t, n) == Taking(t, ids, wants, list, n)
           Good(f) == f = [n \in 0 .. N |-> IF n = 0 THEN <<>> ELSE Next1(f[n - 1], n)]
           some == CHOOSE f : Good(f)
           step == [n \in 1 .. N |-> [t \in P |-> Next1(t, n)]]
<1>1. N \in Nat /\ (\A n \in 1 .. N : ids[n] \in Nat) /\ <<>> \in P
  OBVIOUS
<1>2. Matched(ids, wants, list) = some[N]
  BY Zenon DEF Matched, Taking, MatchAt, Seconds
<1>3. step \in [1 .. N -> [P -> P]]
  <2>1. ASSUME NEW n \in 1 .. N, NEW t \in P  PROVE Next1(t, n) \in P
    <3> DEFINE at == MatchAt(wants, list, n, Seconds(t))
    <3>1. at = 0 \/ at \in (1 .. M) \ Seconds(t)
      BY MatchIs, Zenon DEF MatchAt, MatchOf
    <3>2. at \in Nat
      BY <3>1
    <3> HIDE DEF at
    <3>3. <<ids[n], at>> \in Nat \X Nat
      BY <1>1, <3>2
    <3>4. Append(t, <<ids[n], at>>) \in P
      BY <3>3, AppendProperties
    <3>5. Next1(t, n) = IF at = 0 THEN t ELSE Append(t, <<ids[n], at>>)
      BY Zenon DEF Taking, at
    <3> QED
      BY <3>4, <3>5
  <2> HIDE DEF P, N, Next1
  <2> QED
    BY <2>1
<1> HIDE DEF P
<1>4. PICK g : Carries(g, N, P, <<>>, step)
  <2> HIDE DEF step, N
  <2> QED
    BY <1>1, <1>3, CarriedOut
<1>5. Good(g)
  <2>1. g \in [0 .. N -> P] /\ g[0] = <<>> /\ \A n \in 1 .. N : g[n] = step[n][g[n - 1]]
    BY <1>4, Zenon DEF Carries
  <2> HIDE DEF Next1
  <2>2. \A n \in 1 .. N : \A t \in P : step[n][t] = Next1(t, n)
    BY Zenon
  <2> HIDE DEF N, step
  <2>3. \A n \in 1 .. N : g[n - 1] \in P
    BY <1>1, <2>1
  <2>4. \A n \in 0 .. N : n = 0 \/ n \in 1 .. N
    BY <1>1
  <2>5. \A n \in 1 .. N : n # 0
    BY <1>1
  <2>6. \A n \in 0 .. N : g[n] = IF n = 0 THEN <<>> ELSE Next1(g[n - 1], n)
    BY <2>1, <2>2, <2>3, <2>4, <2>5, Zenon
  <2>7. DOMAIN g = 0 .. N /\ g = [n \in 0 .. N |-> g[n]]
    BY <2>1
  <2> QED
    BY <2>6, <2>7, Zenon
<1>6. Good(some)
  <2> HIDE DEF Good
  <2> QED
    BY <1>5
<1> HIDE DEF some, step
<1>7. some[0] = <<>> /\ \A n \in 1 .. N : some[n] = Next1(some[n - 1], n)
  <2>1. \A n \in 1 .. N : n \in 0 .. N /\ n # 0
    BY <1>1
  <2>2. 0 \in 0 .. N
    BY <1>1
  <2> HIDE DEF N, Next1
  <2> QED
    BY <1>6, <2>1, <2>2, Zenon
<1> HIDE DEF Good
<1> DEFINE Fits(n) == MatchedTo(some[n], ids, wants, list, n) /\ SureTaken(some[n], ids, s, C, n)
           bad == {n \in 0 .. N : ~ Fits(n)}
<1>8. Fits(0)
  <2>1. MatchedTo(<<>>, ids, wants, list, 0)
    BY DEF MatchedTo
  <2>2. SureTaken(<<>>, ids, s, C, 0)
    BY DEF SureTaken
  <2> QED
    BY <1>7, <2>1, <2>2
<1>9. ASSUME NEW n \in 1 .. N, Fits(n - 1)  PROVE Fits(n)
  <2>1. MatchedTo(Next1(some[n - 1], n), ids, wants, list, n) /\ SureTaken(Next1(some[n - 1], n), ids, s, C, n)
    BY <1>9, MatchedMore
  <2> QED
    BY <1>7, <2>1, Zenon
<1> HIDE DEF Fits
<1>10. bad = {}
  <2> SUFFICES ASSUME bad # {}  PROVE FALSE
    OBVIOUS
  <2>1. bad \subseteq Nat
    OBVIOUS
  <2>2. PICK m \in bad : \A k \in bad : m <= k
    <3> HIDE DEF bad
    <3> QED
      BY <2>1, LeastNumber
  <2>3. m # 0
    BY <1>8
  <2>4. m \in 1 .. N /\ m - 1 \in 0 .. N /\ ~ (m <= m - 1)
    BY <1>1, <2>3
  <2>5. Fits(m - 1)
    BY <2>2, <2>4
  <2>6. Fits(m)
    BY <1>9, <2>4, <2>5
  <2> QED
    BY <2>2, <2>6
<1>11. Fits(N)
  <2>1. N \in 0 .. N
    BY <1>1
  <2> QED
    BY <1>10, <2>1
<1>12. \A m \in C : m \in C \cap (1 .. N)
  OBVIOUS
<1> QED
  BY <1>2, <1>11, <1>12, Zenon DEF Fits, SureTaken, MatchedOf

\* Files and copies as the code has them: each is at a path of its own, a file
\* that is at a copy's is that copy, and no two are one asset.
ToldApart(f, copies, K, M) ==
  /\ DOMAIN f = 1 .. K /\ DOMAIN copies = 1 .. M
  /\ \A i, j \in 1 .. K : f[i].path = f[j].path => i = j
  /\ \A i, j \in 1 .. M : copies[i].path = copies[j].path => i = j
  /\ \A k \in 1 .. K, i \in 1 .. M : copies[i].path = f[k].path => copies[i].bytes = f[k].bytes
  /\ \A j, k \in 1 .. K : f[j].asset = f[k].asset => j = k \/ f[k].asset = "none"

\* Of a list of distinct paths, who finds a match where nothing is taken finds
\* it as long as it isn't.
LEMMA MatchSure ==
  ASSUME NEW list, NEW M \in Nat, DOMAIN list = 1 .. M, \A i, j \in 1 .. M : list[i].path = list[j].path => i = j,
         NEW path, NEW bytes, NEW taken, NEW i, i = Match(list, path, bytes, {}), i # 0, i \notin taken
  PROVE  Match(list, path, bytes, taken) = i
<1> DEFINE at == Match(list, path, bytes, taken)
           left == (1 .. M) \ taken
<1>1. /\ i \in 1 .. M
      /\ \A j \in 1 .. M : list[j].path = path => list[i].path = path
      /\ \/ list[i].path = path
         \/ list[i].bytes = bytes /\ \A j \in 1 .. M : list[j].bytes = bytes => i <= j
  <2>1. MatchOf(i, list, (1 .. M) \ {}, path, bytes)
    BY MatchIs
  <2> QED
    BY <2>1 DEF MatchOf
<1>2. MatchOf(at, list, left, path, bytes)
  BY MatchIs
<1> HIDE DEF at
<1>3. i \in left /\ i \in Nat
  BY <1>1
<1>4. CASE list[i].path = path
  <2>1. at # 0 /\ list[at].path = path /\ at \in 1 .. M
    BY <1>2, <1>3, <1>4 DEF MatchOf
  <2> QED
    BY <1>1, <1>4, <2>1 DEF at
<1>5. CASE list[i].path # path
  <2>1. list[i].bytes = bytes /\ (\A j \in 1 .. M : list[j].bytes = bytes => i <= j)
        /\ \A j \in 1 .. M : list[j].path # path
    BY <1>1, <1>5
  <2>2. at # 0 /\ at \in 1 .. M
    BY <1>2, <1>3, <2>1 DEF MatchOf
  <2>3. list[at].bytes = bytes /\ at <= i
    BY <1>2, <1>3, <2>1, <2>2 DEF MatchOf
  <2>4. i <= at
    BY <2>1, <2>2, <2>3
  <2>5. at \in Nat
    BY <2>2
  <2>6. at = i
    BY <1>3, <2>3, <2>4, <2>5
  <2> QED
    BY <2>6 DEF at
<1> QED
  BY <1>4, <1>5

\* What is certain of a file is of those of its bytes.
LEMMA CertainAlike ==
  ASSUME NEW f, NEW copies, NEW k \in DOMAIN f, NEW j \in DOMAIN f, f[j].bytes = f[k].bytes, Certain(f, copies, k)
  PROVE  Certain(f, copies, j) /\ (j = k \/ (CopyAt(f, copies, k) # {} /\ CopyAt(f, copies, j) # {}))
<1>1. j \in Alike(f, k) /\ k \in Alike(f, k) /\ Alike(f, j) = Alike(f, k)
  BY DEF Alike
<1>2. CASE Alike(f, k) = {k}
  <2>1. j = k
    BY <1>1, <1>2
  <2> QED
    BY <2>1
<1>3. CASE \A i \in Alike(f, k) : CopyAt(f, copies, i) # {}
  BY <1>1, <1>3 DEF Certain
<1> QED
  BY <1>2, <1>3 DEF Certain

\* The copy a file finds where none is taken.
OwnCopy(f, copies, k) == Match(copies, f[k].path, f[k].bytes, {})

\* What a pair of a rendition and its copy holds.
PairHolds(f, copies, K, M, p) ==
  /\ p[1] \in 1 .. K /\ f[p[1]].converts /\ p[2] \in 1 .. M /\ copies[p[2]].bytes = f[p[1]].bytes
  /\ Certain(f, copies, p[1]) => p[2] = OwnCopy(f, copies, p[1])

\* What a file's matches are.
CopyMatchesOf(f, copies, M, k) ==
  /\ \A T : Match(copies, f[k].path, f[k].bytes, T) # 0 =>
         /\ Match(copies, f[k].path, f[k].bytes, T) \in 1 .. M
         /\ copies[Match(copies, f[k].path, f[k].bytes, T)].bytes = f[k].bytes
  /\ (\E i \in 1 .. M : copies[i].bytes = f[k].bytes) <=> OwnCopy(f, copies, k) # 0
  /\ OwnCopy(f, copies, k) # 0 =>
       OwnCopy(f, copies, k) \in 1 .. M /\ copies[OwnCopy(f, copies, k)].bytes = f[k].bytes
  /\ CopyAt(f, copies, k) # {} =>
       OwnCopy(f, copies, k) # 0 /\ copies[OwnCopy(f, copies, k)].path = f[k].path

\* A match of a file is of its bytes; its own is there where any copy is of
\* its bytes, by its path where there is one of that.
LEMMA CopyMatches ==
  ASSUME NEW f, NEW copies, NEW K \in Nat, NEW M \in Nat, ToldApart(f, copies, K, M), NEW k \in 1 .. K
  PROVE  CopyMatchesOf(f, copies, M, k)
<1> DEFINE at(T) == Match(copies, f[k].path, f[k].bytes, T)
<1>1. DOMAIN copies = 1 .. M /\ \A i \in 1 .. M : copies[i].path = f[k].path => copies[i].bytes = f[k].bytes
  BY DEF ToldApart
<1>2. \A T : MatchOf(at(T), copies, (1 .. M) \ T, f[k].path, f[k].bytes)
  BY <1>1, MatchIs
<1> HIDE DEF at
<1>3. ASSUME NEW T  PROVE at(T) # 0 => at(T) \in 1 .. M /\ copies[at(T)].bytes = f[k].bytes
  BY <1>1, <1>2 DEF MatchOf
<1>4. (\E i \in 1 .. M : copies[i].bytes = f[k].bytes) <=> at({}) # 0
  BY <1>1, <1>2 DEF MatchOf
<1>5. CopyAt(f, copies, k) # {} => at({}) # 0 /\ copies[at({})].path = f[k].path
  <2>1. ASSUME NEW i \in CopyAt(f, copies, k)  PROVE i \in (1 .. M) \ {} /\ copies[i].path = f[k].path
    BY <1>1 DEF CopyAt
  <2> QED
    BY <1>2, <2>1 DEF MatchOf
<1>6. at({}) = OwnCopy(f, copies, k)
  BY DEF OwnCopy, at
<1>7. \A T : at(T) # 0 => at(T) \in 1 .. M /\ copies[at(T)].bytes = f[k].bytes
  BY <1>3
<1> QED
  BY <1>3, <1>4, <1>5, <1>6, <1>7, Zenon DEF at, CopyMatchesOf

\* Pairs of renditions and their copies, no two of them of one rendition or
\* of one copy.
PairsHold(f, copies, K, M, pairs) ==
  /\ pairs \in Seq(Nat \X Nat)
  /\ \A i \in 1 .. Len(pairs) : PairHolds(f, copies, K, M, pairs[i])
  /\ \A i, j \in 1 .. Len(pairs) : i # j => pairs[i][1] # pairs[j][1] /\ pairs[i][2] # pairs[j][2]

\* One for each of these renditions that is certain of a copy.
PairsTold(pairs, r, f, copies, K, M) ==
  /\ PairsHold(f, copies, K, M, pairs)
  /\ \A n \in 1 .. Len(r) : Certain(f, copies, r[n]) /\ OwnCopy(f, copies, r[n]) # 0 =>
       \E i \in 1 .. Len(pairs) : pairs[i] = <<r[n], OwnCopy(f, copies, r[n])>>

\* The copies of the renditions: a rendition certain of its copy has it.
LEMMA PairsAre ==
  ASSUME NEW f, NEW copies, NEW K \in Nat, NEW M \in Nat, ToldApart(f, copies, K, M),
         NEW r \in Seq(1 .. K), \A n \in 1 .. Len(r) : f[r[n]].converts,
         \A m, n \in 1 .. Len(r) : m # n => r[m] # r[n]
  PROVE  PairsTold(CopiesOf(r, f, copies), r, f, copies, K, M)
<1> DEFINE N == Len(r)
           want == [n \in DOMAIN r |-> f[r[n]]]
           pairs == CopiesOf(r, f, copies)
           own(n) == OwnCopy(f, copies, r[n])
           C == {n \in 1 .. N : Certain(f, copies, r[n]) /\ own(n) # 0}
           s == [n \in 1 .. N |-> own(n)]
           got(n, T) == MatchAt(want, copies, n, T)
<1>1. /\ N \in Nat /\ r \in Seq(Nat) /\ (\A n \in 1 .. N : r[n] \in 1 .. K)
      /\ DOMAIN f = 1 .. K /\ DOMAIN copies = 1 .. M
      /\ \A i, j \in 1 .. M : copies[i].path = copies[j].path => i = j
      /\ \A i, j \in 1 .. K : f[i].path = f[j].path => i = j
  <2>1. N \in Nat /\ r \in Seq(Nat) /\ \A n \in 1 .. N : r[n] \in 1 .. K
    OBVIOUS
  <2>2. /\ DOMAIN f = 1 .. K /\ DOMAIN copies = 1 .. M
        /\ \A i, j \in 1 .. M : copies[i].path = copies[j].path => i = j
        /\ \A i, j \in 1 .. K : f[i].path = f[j].path => i = j
    BY Zenon DEF ToldApart
  <2> QED
    BY <2>1, <2>2, Zenon
<1>2. pairs = Matched(r, want, copies)
  BY DEF CopiesOf
<1>3. \A n \in 1 .. N : want[n] = f[r[n]]
  OBVIOUS
<1>4. \A n \in 1 .. N : \A T : got(n, T) = Match(copies, f[r[n]].path, f[r[n]].bytes, T)
  BY <1>3 DEF MatchAt
<1>5. ASSUME NEW n \in 1 .. N
      PROVE  /\ \A T : got(n, T) # 0 => got(n, T) \in 1 .. M /\ copies[got(n, T)].bytes = f[r[n]].bytes
             /\ (\E i \in 1 .. M : copies[i].bytes = f[r[n]].bytes) <=> own(n) # 0
             /\ own(n) # 0 => own(n) \in 1 .. M /\ copies[own(n)].bytes = f[r[n]].bytes
             /\ CopyAt(f, copies, r[n]) # {} => own(n) # 0 /\ copies[own(n)].path = f[r[n]].path
  <2>1. r[n] \in 1 .. K
    BY <1>1
  <2>2. CopyMatchesOf(f, copies, M, r[n])
    BY <2>1, CopyMatches, Zenon
  <2>3. \A T : got(n, T) = Match(copies, f[r[n]].path, f[r[n]].bytes, T)
    BY <1>4
  <2>4. own(n) = OwnCopy(f, copies, r[n])
    OBVIOUS
  <2> HIDE DEF got, own
  <2> QED
    BY <2>2, <2>3, <2>4, Zenon DEF CopyMatchesOf
<1>6. ASSUME NEW n \in 1 .. N, own(n) # 0, NEW T, own(n) \notin T  PROVE got(n, T) = own(n)
  <2>1. own(n) = Match(copies, f[r[n]].path, f[r[n]].bytes, {})
    BY DEF OwnCopy
  <2> HIDE DEF own, got
  <2>2. Match(copies, f[r[n]].path, f[r[n]].bytes, T) = own(n)
    BY <1>1, <1>6, <2>1, MatchSure
  <2> QED
    BY <1>4, <2>2
<1>7. \A n \in 1 .. N : s[n] = own(n)
  OBVIOUS
<1> HIDE DEF s, want, got, own, N, pairs
<1>8. ASSUME NEW m \in 1 .. N, NEW n \in C, m # n, NEW x \in 1 .. M, x = own(n), copies[x].bytes = f[r[m]].bytes
      PROVE  m \in C /\ own(m) # own(n)
  <2>1. n \in 1 .. N /\ Certain(f, copies, r[n]) /\ own(n) # 0 /\ r[m] \in 1 .. K /\ r[n] \in 1 .. K
    BY <1>1
  <2>2. f[r[m]].bytes = f[r[n]].bytes
    BY <1>5, <1>8, <2>1
  <2>3. r[m] # r[n]
    BY <1>8, <2>1 DEF N
  <2>4. Certain(f, copies, r[m]) /\ CopyAt(f, copies, r[n]) # {} /\ CopyAt(f, copies, r[m]) # {}
    BY <1>1, <2>1, <2>2, <2>3, CertainAlike
  <2>5. own(m) # 0 /\ copies[own(m)].path = f[r[m]].path /\ copies[own(n)].path = f[r[n]].path
    BY <1>5, <2>1, <2>4
  <2> QED
    BY <1>1, <2>1, <2>3, <2>4, <2>5
<1>9. Sure(s, C, want, copies, N)
  <2>1. \A n \in C : s[n] # 0 /\ \A T : s[n] \notin T => MatchAt(want, copies, n, T) = s[n]
    BY <1>6, <1>7 DEF got
  <2>2. ASSUME NEW n \in C, NEW m \in C, n # m  PROVE s[n] # s[m]
    <3> SUFFICES ASSUME own(n) = own(m)  PROVE FALSE
      BY <1>7
    <3>1. own(n) \in 1 .. M /\ copies[own(n)].bytes = f[r[m]].bytes
      BY <1>5
    <3> QED
      BY <1>8, <2>2, <3>1
  <2>3. ASSUME NEW n \in C, NEW m \in (1 .. N) \ C, NEW T, got(m, T) = s[n]  PROVE FALSE
    <3>1. own(n) # 0 /\ got(m, T) = own(n)
      BY <1>7, <2>3
    <3>2. own(n) \in 1 .. M /\ copies[own(n)].bytes = f[r[m]].bytes
      BY <1>5, <3>1
    <3> QED
      BY <1>8, <3>2
  <2> HIDE DEF C
  <2> QED
    BY <2>1, <2>2, <2>3, Zenon DEF Sure, got
<1>10. /\ MatchedTo(pairs, r, want, copies, N)
       /\ \A n \in C : \E i \in 1 .. Len(pairs) : pairs[i] = <<r[n], s[n]>>
  <2>1. C \in SUBSET (1 .. N)
    OBVIOUS
  <2> HIDE DEF C
  <2>2. \A i, j \in 1 .. Len(r) : i # j => r[i] # r[j]
    OBVIOUS
  <2>3. N = Len(r)
    BY DEF N
  <2>4. Sure(s, C, want, copies, Len(r)) /\ C \in SUBSET (1 .. Len(r))
    BY <1>9, <2>1, <2>3, Zenon
  <2>5. MatchedOf(Matched(r, want, copies), r, want, copies, C, s)
    <3>1. r \in Seq(Nat) /\ M \in Nat /\ DOMAIN copies = 1 .. M
      BY <1>1
    <3> QED
      BY <2>2, <2>4, <3>1, MatchedIs, Zenon
  <2> QED
    BY <1>2, <2>3, <2>5, Zenon DEF MatchedOf
<1>11. \A n \in C : \E i \in 1 .. Len(pairs) : pairs[i] = <<r[n], own(n)>>
  BY <1>7, <1>10
<1>12. /\ pairs \in Seq(Nat \X Nat)
       /\ \A i \in 1 .. Len(pairs) : \E m \in 1 .. N : \E T : got(m, T) # 0 /\ pairs[i] = <<r[m], got(m, T)>>
       /\ \A i, j \in 1 .. Len(pairs) : i # j => pairs[i][1] # pairs[j][1] /\ pairs[i][2] # pairs[j][2]
  BY <1>10, Zenon DEF MatchedTo, got
<1>13. ASSUME NEW i \in 1 .. Len(pairs)  PROVE PairHolds(f, copies, K, M, pairs[i])
  <2>1. PICK m \in 1 .. N : \E T : got(m, T) # 0 /\ pairs[i] = <<r[m], got(m, T)>>
    BY <1>12, Zenon
  <2>2. /\ pairs[i][1] = r[m] /\ pairs[i][2] \in 1 .. M /\ copies[pairs[i][2]].bytes = f[r[m]].bytes
    BY <1>5, <2>1
  <2>3. Certain(f, copies, r[m]) => pairs[i][2] = own(m)
    <3> SUFFICES ASSUME Certain(f, copies, r[m])  PROVE pairs[i][2] = own(m)
      OBVIOUS
    <3>1. own(m) # 0
      BY <1>5, <2>2
    <3>2. PICK j \in 1 .. Len(pairs) : pairs[j] = <<r[m], own(m)>>
      BY <1>11, <3>1
    <3>3. pairs[j][1] = r[m] /\ pairs[j][2] = own(m)
      BY <3>2
    <3>4. i = j
      BY <1>12, <2>2, <3>3, Zenon
    <3> QED
      BY <3>3, <3>4
  <2>4. f[r[m]].converts
    BY DEF N
  <2>5. r[m] \in 1 .. K
    BY <1>1
  <2> QED
    BY <2>2, <2>3, <2>4, <2>5, Zenon DEF PairHolds, own
<1>14. \A n \in 1 .. N : Certain(f, copies, r[n]) /\ own(n) # 0 =>
         \E i \in 1 .. Len(pairs) : pairs[i] = <<r[n], own(n)>>
  BY <1>11
<1> QED
  BY <1>12, <1>13, <1>14, Zenon DEF N, pairs, own, PairsTold, PairsHold

\* What the matches of a pair's copy are.
AnsweredBy(f, copies, K, p) ==
  /\ \A T : Match(f, copies[p[2]].path, copies[p[2]].bytes, T) # 0 =>
         /\ Match(f, copies[p[2]].path, copies[p[2]].bytes, T) \in 1 .. K
         /\ f[Match(f, copies[p[2]].path, copies[p[2]].bytes, T)].bytes = f[p[1]].bytes
  /\ Certain(f, copies, p[1]) => Match(f, copies[p[2]].path, copies[p[2]].bytes, {}) = p[1]

\* A file that can be told is the one its copy is matched with.
LEMMA AnswerMatches ==
  ASSUME NEW f, NEW copies, NEW K \in Nat, NEW M \in Nat, ToldApart(f, copies, K, M),
         NEW p, PairHolds(f, copies, K, M, p)
  PROVE  AnsweredBy(f, copies, K, p)
<1> DEFINE c == copies[p[2]]
           k == p[1]
           at(T) == Match(f, c.path, c.bytes, T)
<1>1. /\ DOMAIN f = 1 .. K /\ DOMAIN copies = 1 .. M /\ k \in 1 .. K /\ p[2] \in 1 .. M /\ c.bytes = f[k].bytes
      /\ \A i, j \in 1 .. K : f[i].path = f[j].path => i = j
      /\ \A i \in 1 .. K : c.path = f[i].path => c.bytes = f[i].bytes
      /\ Certain(f, copies, k) => p[2] = OwnCopy(f, copies, k)
  BY DEF ToldApart, PairHolds
<1>2. \A T : MatchOf(at(T), f, (1 .. K) \ T, c.path, c.bytes)
  BY <1>1, MatchIs
<1> HIDE DEF at, c, k
<1>3. ASSUME NEW T, at(T) # 0  PROVE at(T) \in 1 .. K /\ f[at(T)].bytes = f[k].bytes
  <2>1. at(T) \in 1 .. K /\ (f[at(T)].path = c.path \/ f[at(T)].bytes = c.bytes)
    BY <1>2, <1>3 DEF MatchOf
  <2> QED
    BY <1>1, <2>1
<1>4. ASSUME Certain(f, copies, k)  PROVE at({}) = k
  <2>1. at({}) # 0
    BY <1>1, <1>2 DEF MatchOf
  <2>2. at({}) \in 1 .. K /\ f[at({})].bytes = f[k].bytes
    BY <1>3, <2>1
  <2>3. CASE Alike(f, k) = {k}
    <3>1. at({}) \in Alike(f, k)
      BY <1>1, <2>2 DEF Alike
    <3> QED
      BY <2>3, <3>1
  <2>4. CASE \A j \in Alike(f, k) : CopyAt(f, copies, j) # {}
    <3>1. k \in Alike(f, k)
      BY <1>1 DEF Alike
    <3>2. CopyAt(f, copies, k) # {}
      BY <2>4, <3>1
    <3>3. CopyMatchesOf(f, copies, M, k)
      BY <1>1, CopyMatches
    <3>4. c.path = f[k].path
      BY <1>1, <1>4, <3>2, <3>3 DEF c, CopyMatchesOf
    <3>5. f[at({})].path = c.path
      BY <1>1, <1>2, <3>4 DEF MatchOf
    <3> QED
      BY <1>1, <2>2, <3>4, <3>5
  <2> QED
    BY <1>4, <2>3, <2>4 DEF Certain
<1> QED
  BY <1>3, <1>4, Zenon DEF at, c, k, AnsweredBy

\* What the answers for pairs are.
AnswersHold(ans, pairs, f, copies, K) ==
  /\ ans \in Seq(Nat \X Nat)
  /\ \A i \in 1 .. Len(ans) :
       /\ \E n \in 1 .. Len(pairs) : ans[i][1] = pairs[n][1]
       /\ ans[i][2] \in 1 .. K /\ f[ans[i][2]].bytes = f[ans[i][1]].bytes
  /\ \A i, j \in 1 .. Len(ans) : i # j => ans[i][1] # ans[j][1] /\ ans[i][2] # ans[j][2]
  /\ \A n \in 1 .. Len(pairs) : Certain(f, copies, pairs[n][1]) =>
       \E i \in 1 .. Len(ans) : ans[i] = <<pairs[n][1], pairs[n][1]>>

\* What the handover answers.
LEMMA AnswersAre ==
  ASSUME NEW f, NEW copies, NEW K \in Nat, NEW M \in Nat, ToldApart(f, copies, K, M),
         NEW pairs, PairsHold(f, copies, K, M, pairs)
  PROVE  AnswersHold(Answered(pairs, f, copies), pairs, f, copies, K)
<1> DEFINE N == Len(pairs)
           ids == [n \in DOMAIN pairs |-> pairs[n][1]]
           want == [n \in DOMAIN pairs |-> copies[pairs[n][2]]]
           ans == Answered(pairs, f, copies)
           C == {n \in 1 .. N : Certain(f, copies, pairs[n][1])}
           got(n, T) == MatchAt(want, f, n, T)
<1>1. /\ pairs \in Seq(Nat \X Nat) /\ N \in Nat /\ DOMAIN pairs = 1 .. N
      /\ \A n \in 1 .. N : PairHolds(f, copies, K, M, pairs[n]) /\ pairs[n][1] \in Nat
      /\ \A i, j \in 1 .. N : i # j => pairs[i][1] # pairs[j][1] /\ pairs[i][2] # pairs[j][2]
      /\ DOMAIN f = 1 .. K /\ \A i, j \in 1 .. K : f[i].path = f[j].path => i = j
  BY DEF PairsHold, ToldApart
<1>2. ids \in Seq(Nat) /\ Len(ids) = N /\ \A n \in 1 .. N : ids[n] = pairs[n][1]
  <2>1. ids = [n \in 1 .. N |-> pairs[n][1]]
    BY <1>1
  <2> HIDE DEF N
  <2> QED
    BY <1>1, <2>1
<1>3. ans = Matched(ids, want, f)
  BY DEF Answered
<1>4. \A n \in 1 .. N : want[n] = copies[pairs[n][2]]
  BY <1>1
<1>5. \A n \in 1 .. N : \A T : got(n, T) = Match(f, copies[pairs[n][2]].path, copies[pairs[n][2]].bytes, T)
  BY <1>4 DEF MatchAt
<1> HIDE DEF N, ids, want, ans, got
<1>6. ASSUME NEW n \in 1 .. N, NEW T, got(n, T) # 0
      PROVE  got(n, T) \in 1 .. K /\ f[got(n, T)].bytes = f[ids[n]].bytes
  <2>1. PairHolds(f, copies, K, M, pairs[n]) /\ ids[n] = pairs[n][1]
    BY <1>1, <1>2
  <2>2. AnsweredBy(f, copies, K, pairs[n])
    BY <2>1, AnswerMatches, Zenon
  <2>3. got(n, T) = Match(f, copies[pairs[n][2]].path, copies[pairs[n][2]].bytes, T)
    BY <1>5
  <2> QED
    BY <1>6, <2>1, <2>2, <2>3, Zenon DEF AnsweredBy
<1>7. ASSUME NEW n \in C, NEW T, ids[n] \notin T  PROVE got(n, T) = ids[n]
  <2>1. n \in 1 .. N /\ PairHolds(f, copies, K, M, pairs[n]) /\ Certain(f, copies, pairs[n][1])
    BY <1>1
  <2>2. Match(f, copies[pairs[n][2]].path, copies[pairs[n][2]].bytes, {}) = ids[n]
    <3>1. AnsweredBy(f, copies, K, pairs[n]) /\ ids[n] = pairs[n][1]
      BY <1>2, <2>1, AnswerMatches, Zenon
    <3> QED
      BY <2>1, <3>1, Zenon DEF AnsweredBy
  <2>3. ids[n] # 0
    BY <1>2, <2>1 DEF PairHolds
  <2>4. Match(f, copies[pairs[n][2]].path, copies[pairs[n][2]].bytes, T) = ids[n]
    BY <1>1, <1>7, <2>2, <2>3, MatchSure
  <2> QED
    BY <1>5, <2>1, <2>4, Zenon
<1>8. Sure(ids, C, want, f, N)
  <2>1. \A n \in C : ids[n] # 0 /\ \A T : ids[n] \notin T => MatchAt(want, f, n, T) = ids[n]
    <3>1. \A n \in C : ids[n] # 0
      BY <1>1, <1>2 DEF PairHolds
    <3> QED
      BY <1>7, <3>1, Zenon DEF got
  <2>2. \A n, m \in C : n # m => ids[n] # ids[m]
    BY <1>1, <1>2
  <2>3. ASSUME NEW n \in C, NEW m \in (1 .. N) \ C, NEW T, got(m, T) = ids[n]  PROVE FALSE
    <3>1. n \in 1 .. N /\ m \in 1 .. N /\ ids[n] \in 1 .. K /\ ids[m] \in 1 .. K
      BY <1>1, <1>2 DEF PairHolds
    <3>2. f[ids[n]].bytes = f[ids[m]].bytes
      <4>1. ids[n] # 0
        BY <3>1
      <4> QED
        BY <1>6, <2>3, <3>1, <4>1, Zenon
    <3>3. Certain(f, copies, ids[n]) /\ ~ Certain(f, copies, ids[m])
      BY <1>2
    <3> QED
      BY <1>1, <3>1, <3>2, <3>3, CertainAlike
  <2> HIDE DEF C
  <2> QED
    BY <2>1, <2>2, <2>3, Zenon DEF Sure, got
<1>9. MatchedOf(ans, ids, want, f, C, ids)
  <2>1. /\ \A i, j \in 1 .. Len(ids) : i # j => ids[i] # ids[j]
        /\ C \in SUBSET (1 .. Len(ids)) /\ Sure(ids, C, want, f, Len(ids))
    BY <1>1, <1>2, <1>8
  <2> HIDE DEF C
  <2> QED
    BY <1>1, <1>2, <1>3, <2>1, MatchedIs, Zenon
<1>10. /\ ans \in Seq(Nat \X Nat)
       /\ \A i \in 1 .. Len(ans) : \E m \in 1 .. N : \E T : got(m, T) # 0 /\ ans[i] = <<ids[m], got(m, T)>>
       /\ \A i, j \in 1 .. Len(ans) : i # j => ans[i][1] # ans[j][1] /\ ans[i][2] # ans[j][2]
       /\ \A n \in C : \E i \in 1 .. Len(ans) : ans[i] = <<ids[n], ids[n]>>
  BY <1>2, <1>9, Zenon DEF MatchedOf, MatchedTo, got
<1>11. ASSUME NEW i \in 1 .. Len(ans)
       PROVE  /\ \E n \in 1 .. N : ans[i][1] = pairs[n][1]
              /\ ans[i][2] \in 1 .. K /\ f[ans[i][2]].bytes = f[ans[i][1]].bytes
  <2>1. PICK m \in 1 .. N : \E T : got(m, T) # 0 /\ ans[i] = <<ids[m], got(m, T)>>
    BY <1>10, Zenon
  <2>2. PICK T : got(m, T) # 0 /\ ans[i] = <<ids[m], got(m, T)>>
    BY <2>1
  <2>3. ans[i][1] = ids[m] /\ ans[i][2] = got(m, T)
    BY <2>2
  <2>4. got(m, T) \in 1 .. K /\ f[got(m, T)].bytes = f[ids[m]].bytes
    BY <1>6, <2>2
  <2>5. ids[m] = pairs[m][1]
    BY <1>2
  <2> QED
    BY <2>3, <2>4, <2>5, Zenon
<1>12. \A n \in 1 .. N : Certain(f, copies, pairs[n][1]) =>
         \E i \in 1 .. Len(ans) : ans[i] = <<pairs[n][1], pairs[n][1]>>
  <2> TAKE n \in 1 .. N
  <2> HAVE Certain(f, copies, pairs[n][1])
  <2>1. n \in C /\ ids[n] = pairs[n][1]
    BY <1>2
  <2>2. PICK i \in 1 .. Len(ans) : ans[i] = <<ids[n], ids[n]>>
    BY <1>10, <2>1
  <2> QED
    BY <2>1, <2>2
<1> QED
  BY <1>10, <1>11, <1>12, Zenon DEF AnswersHold, N, ans

\* A sequence of some is one of more.
LEMMA SequenceWithin ==
  ASSUME NEW S, NEW T, S \subseteq T, NEW s \in Seq(S)
  PROVE  s \in Seq(T)
<1>1. Len(s) \in Nat /\ \A n \in 1 .. Len(s) : s[n] \in T
  OBVIOUS
<1>2. s = [n \in 1 .. Len(s) |-> s[n]]
  OBVIOUS
<1> QED
  BY <1>1, <1>2

\* The handover of the files of a run says of each what became of it.
LEMMA TracedIs ==
  ASSUME NEW B, NEW f \in Seq(B), NEW copies, NEW M \in Nat, ToldApart(f, copies, Len(f), M)
  PROVE  LET pairs == CopiesOf(Converted(f), f, copies)
         IN Traced(f, copies, pairs, Handover(pairs, f, copies))
<1> DEFINE K == Len(f)
           r == Converted(f)
           pairs == CopiesOf(r, f, copies)
           ans == Answered(pairs, f, copies)
           handover == Handover(pairs, f, copies)
           own(k) == OwnCopy(f, copies, k)
<1>1. K \in Nat /\ DOMAIN f = 1 .. K /\ DOMAIN copies = 1 .. M
  BY DEF ToldApart
<1>2. /\ r \in Seq(1 .. K) /\ \A n \in 1 .. Len(r) : f[r[n]].converts
      /\ \A m, n \in 1 .. Len(r) : m # n => r[m] # r[n]
      /\ \A k \in 1 .. K : f[k].converts => \E n \in 1 .. Len(r) : r[n] = k
  <2> DEFINE P == {k \in DOMAIN f : f[k].converts}
  <2>1. r = InOrder(P, K) /\ P \in SUBSET (1 .. K)
    BY <1>1 DEF Converted
  <2>2. /\ r \in Seq(P) /\ \A k \in P : \E n \in 1 .. Len(r) : r[n] = k
        /\ \A i, j \in 1 .. Len(r) : i < j => r[i] < r[j]
    <3> HIDE DEF P, r, K
    <3> QED
      BY <1>1, <2>1, InOrderIs
  <2>3. \A k : k \in P <=> k \in 1 .. K /\ f[k].converts
    BY <1>1
  <2> HIDE DEF P, r, K
  <2>4. Len(r) \in Nat /\ \A n \in 1 .. Len(r) : r[n] \in 1 .. K /\ f[r[n]].converts
    <3>1. r \in Seq(P)
      BY <2>2
    <3>2. Len(r) \in Nat /\ \A n \in 1 .. Len(r) : r[n] \in P
      BY <3>1
    <3> QED
      BY <2>3, <3>2
  <2>5. r \in Seq(1 .. K)
    <3>1. P \subseteq 1 .. K
      BY <2>3
    <3> QED
      BY <2>2, <3>1, SequenceWithin
  <2>6. ASSUME NEW m \in 1 .. Len(r), NEW n \in 1 .. Len(r), m # n  PROVE r[m] # r[n]
    <3>1. m < n \/ n < m
      BY <2>4, <2>6
    <3>2. r[m] < r[n] \/ r[n] < r[m]
      BY <2>2, <3>1
    <3> QED
      BY <1>1, <2>4, <3>2
  <2> QED
    BY <2>2, <2>3, <2>4, <2>5, <2>6
<1>3. /\ PairsHold(f, copies, K, M, pairs)
      /\ \A n \in 1 .. Len(r) : Certain(f, copies, r[n]) /\ own(r[n]) # 0 =>
           \E i \in 1 .. Len(pairs) : pairs[i] = <<r[n], own(r[n])>>
  <2>1. ToldApart(f, copies, K, M)
    OBVIOUS
  <2> HIDE DEF r, K
  <2>2. PairsTold(pairs, r, f, copies, K, M)
    BY <1>1, <1>2, <2>1, PairsAre
  <2> QED
    BY <2>2, Zenon DEF PairsTold
<1> HIDE DEF r, pairs, own, K, handover, ans
<1>4. AnswersHold(ans, pairs, f, copies, K)
  BY <1>1, <1>3, AnswersAre DEF ans, K
<1>5. /\ ans \in Seq(Nat \X Nat) /\ DOMAIN ans = 1 .. Len(ans)
      /\ pairs \in Seq(Nat \X Nat) /\ DOMAIN pairs = 1 .. Len(pairs)
  BY <1>3, <1>4 DEF AnswersHold, PairsHold
<1>6. /\ \A x : x \in Range(ans) <=> \E i \in 1 .. Len(ans) : x = ans[i]
      /\ \A x : x \in Range(pairs) <=> \E i \in 1 .. Len(pairs) : x = pairs[i]
  BY <1>5, Zenon DEF Range
<1>7. \A h : h \in handover <=>
        \E i \in 1 .. Len(ans) : f[ans[i][2]].asset # "none" /\ h = <<f[ans[i][2]].asset, ans[i][1]>>
  <2>1. \A h : h \in handover <=> \E d \in Range(ans) : f[d[2]].asset # "none" /\ h = <<f[d[2]].asset, d[1]>>
    BY DEF handover, Handover, ans
  <2> QED
    BY <1>6, <2>1
<1>8. \A i \in 1 .. Len(ans) :
        /\ ans[i][1] \in 1 .. K /\ f[ans[i][1]].converts /\ ans[i][2] \in 1 .. K
        /\ f[ans[i][2]].bytes = f[ans[i][1]].bytes
  BY <1>3, <1>4 DEF AnswersHold, PairsHold, PairHolds
<1>9. \A i \in 1 .. Len(ans) : Certain(f, copies, ans[i][2]) => ans[i][1] = ans[i][2]
  <2> SUFFICES ASSUME NEW i \in 1 .. Len(ans), Certain(f, copies, ans[i][2])  PROVE ans[i][1] = ans[i][2]
    OBVIOUS
  <2>1. Certain(f, copies, ans[i][1])
    BY <1>1, <1>8, CertainAlike DEF K
  <2>2. PICK n \in 1 .. Len(pairs) : ans[i][1] = pairs[n][1]
    BY <1>4, Zenon DEF AnswersHold
  <2>3. PICK j \in 1 .. Len(ans) : ans[j] = <<ans[i][1], ans[i][1]>>
    <3>1. \E j \in 1 .. Len(ans) : ans[j] = <<pairs[n][1], pairs[n][1]>>
      <4>1. Certain(f, copies, pairs[n][1])
        BY <2>1, <2>2, Zenon
      <4> QED
        BY <1>4, <4>1, Zenon DEF AnswersHold
    <3> QED
      BY <2>2, <3>1
  <2>4. ans[j][1] = ans[i][1] /\ ans[j][2] = ans[i][1]
    BY <2>3
  <2>5. i = j
    BY <1>4, <2>4, Zenon DEF AnswersHold
  <2> QED
    BY <2>4, <2>5
<1>10. ASSUME NEW h \in handover
       PROVE  \E k \in DOMAIN f :
                /\ f[k].asset = h[1] /\ f[h[2]].bytes = f[k].bytes /\ f[h[2]].converts
                /\ Certain(f, copies, k) => h[2] = k
  <2>1. PICK i \in 1 .. Len(ans) : h = <<f[ans[i][2]].asset, ans[i][1]>>
    BY <1>7
  <2>2. h[1] = f[ans[i][2]].asset /\ h[2] = ans[i][1]
    BY <2>1
  <2>3. ans[i][2] \in DOMAIN f
    BY <1>1, <1>8
  <2> QED
    BY <1>8, <1>9, <2>2, <2>3
<1>11. ASSUME NEW g \in handover, NEW h \in handover, g # h  PROVE g[1] # h[1] /\ g[2] # h[2]
  <2>1. PICK i \in 1 .. Len(ans) : f[ans[i][2]].asset # "none" /\ g = <<f[ans[i][2]].asset, ans[i][1]>>
    BY <1>7
  <2>2. PICK j \in 1 .. Len(ans) : f[ans[j][2]].asset # "none" /\ h = <<f[ans[j][2]].asset, ans[j][1]>>
    BY <1>7
  <2>3. i # j
    BY <1>11, <2>1, <2>2
  <2>4. ans[i][1] # ans[j][1] /\ ans[i][2] # ans[j][2]
    BY <1>4, <2>3, Zenon DEF AnswersHold
  <2>5. f[ans[i][2]].asset # f[ans[j][2]].asset
    BY <1>8, <2>1, <2>2, <2>4 DEF ToldApart, K
  <2> QED
    BY <2>1, <2>2, <2>4, <2>5
<1>12. ASSUME NEW p \in Range(pairs), NEW q \in Range(pairs), p # q  PROVE p[1] # q[1] /\ p[2] # q[2]
  <2>1. PICK i \in 1 .. Len(pairs) : p = pairs[i]
    BY <1>6
  <2>2. PICK j \in 1 .. Len(pairs) : q = pairs[j]
    BY <1>6
  <2> QED
    BY <1>3, <1>12, <2>1, <2>2, Zenon DEF PairsHold
<1>13. ASSUME NEW k \in DOMAIN f, f[k].converts, f[k].asset # "none", Certain(f, copies, k),
              \E i \in DOMAIN copies : copies[i].bytes = f[k].bytes
       PROVE  <<f[k].asset, k>> \in handover
  <2>1. CopyMatchesOf(f, copies, M, k)
    BY <1>1, CopyMatches DEF K
  <2>2. own(k) # 0
    BY <1>1, <1>13, <2>1 DEF CopyMatchesOf, own
  <2>3. PICK n \in 1 .. Len(r) : r[n] = k
    BY <1>1, <1>2, <1>13
  <2>4. PICK i \in 1 .. Len(pairs) : pairs[i] = <<k, own(k)>>
    BY <1>3, <1>13, <2>2, <2>3
  <2>5. pairs[i][1] = k
    BY <2>4
  <2>6. PICK j \in 1 .. Len(ans) : ans[j] = <<k, k>>
    BY <1>4, <1>13, <2>5, Zenon DEF AnswersHold
  <2>7. ans[j][1] = k /\ ans[j][2] = k
    BY <2>6
  <2> QED
    BY <1>7, <1>13, <2>7
<1>14. Traced(f, copies, pairs, handover)
  BY <1>10, <1>11, <1>12, <1>13, Zenon DEF Traced
<1> QED
  BY <1>14 DEF r, pairs, handover

\* Paths, bytes and assets of a run's subtitle files.
SidecarsOf(j) ==
  /\ \E B : j.files \in Seq(B)
  /\ \E M \in Nat : ToldApart(j.files, j.copies, Len(j.files), M)
  /\ j.pairs = CopiesOf(Converted(j.files), j.files, j.copies)
  /\ j.handover = Handover(j.pairs, j.files, j.copies)

\* A job about these.
JobOfSidecars(j, f, copies) ==
  /\ j.kind = "sidecars" /\ j.files = f /\ j.copies = copies
  /\ j.pairs = CopiesOf(Converted(f), f, copies) /\ j.handover = Handover(j.pairs, f, copies)

\* The job of a handover, field by field.
LEMMA SidecarJobIs ==
  ASSUME NEW f, NEW copies, NEW recorded
  PROVE  JobOfSidecars(SidecarJob(f, copies, recorded), f, copies)
<1> DEFINE pairs == CopiesOf(Converted(f), f, copies)
           handover == Handover(pairs, f, copies)
<1>1. SidecarJob(f, copies, recorded) =
        [kind |-> "sidecars", files |-> f, copies |-> copies, recorded |-> recorded, pairs |-> pairs,
         handover |-> handover]
  BY DEF SidecarJob
<1> HIDE DEF pairs, handover
<1>2. /\ SidecarJob(f, copies, recorded).kind = "sidecars" /\ SidecarJob(f, copies, recorded).files = f
      /\ SidecarJob(f, copies, recorded).copies = copies /\ SidecarJob(f, copies, recorded).pairs = pairs
      /\ SidecarJob(f, copies, recorded).handover = handover
  BY <1>1
<1> QED
  BY <1>2 DEF pairs, handover, JobOfSidecars

\* What is kept of files at distinct paths are some of them, in their order.
LEMMA CopiedApart ==
  ASSUME NEW B, NEW e \in Seq(B), Len(e) <= 3,
         \A k \in 1 .. Len(e) : e[k].path = <<"beside", k>> /\ e[k].asset = <<"a", "b", "none">>[k],
         NEW f, f = SubtitleFiles(e)
  PROVE  /\ f \in Seq(B)
         /\ \E M \in Nat : ToldApart(f, StageCopies(f), Len(f), M)
<1> DEFINE taken == {i \in DOMAIN e : e[i].taken}
           copied == Kept(f, {k \in DOMAIN f : f[k].copied})
           copies == StageCopies(f)
           K == Len(f)
           M == Len(copied)
<1>1. f = Kept(e, taken)
  BY DEF SubtitleFiles
<1>2. PICK at : f \in Seq(B) /\ KeptAt(f, e, taken, at, Len(e))
  <2> HIDE DEF taken
  <2> QED
    BY <1>1, KeptIs
<1>3. PICK from : copied \in Seq(B) /\ KeptAt(copied, f, {k \in DOMAIN f : f[k].copied}, from, K)
  BY <1>2, KeptIs
<1> HIDE DEF taken, copied
<1>4. /\ K \in Nat /\ M \in Nat /\ DOMAIN f = 1 .. K /\ DOMAIN copied = 1 .. M
  BY <1>2, <1>3
<1>5. /\ \A i \in 1 .. K : at[i] \in 1 .. Len(e) /\ f[i] = e[at[i]]
      /\ \A i, j \in 1 .. K : i < j => at[i] < at[j]
  BY <1>2 DEF KeptAt
<1>6. /\ \A i \in 1 .. M : from[i] \in 1 .. K /\ copied[i] = f[from[i]]
      /\ \A i, j \in 1 .. M : i < j => from[i] < from[j]
  BY <1>3 DEF KeptAt
<1>7. copies = [n \in 1 .. M |-> Copy(n, copied[n].path, copied[n].bytes)]
  BY <1>4 DEF StageCopies, copied
<1>8. DOMAIN copies = 1 .. M /\ \A i \in 1 .. M : copies[i].path = copied[i].path /\ copies[i].bytes = copied[i].bytes
  BY <1>7 DEF Copy
<1> HIDE DEF K, M, copies
<1>9. \A i, j \in 1 .. K : at[i] = at[j] => i = j
  BY <1>4, <1>5
<1>10. \A i, j \in 1 .. M : from[i] = from[j] => i = j
  BY <1>4, <1>6
<1>11. \A i \in 1 .. K : f[i].path = <<"beside", at[i]>> /\ f[i].asset = <<"a", "b", "none">>[at[i]]
  BY <1>5
<1>12. \A i, j \in 1 .. K : f[i].path = f[j].path => i = j
  <2> TAKE i \in 1 .. K, j \in 1 .. K
  <2> HAVE f[i].path = f[j].path
  <2>1. <<"beside", at[i]>> = <<"beside", at[j]>>
    BY <1>11
  <2>2. at[i] = at[j]
    BY <2>1
  <2> QED
    BY <1>9, <2>2
<1>13. \A i, j \in 1 .. K : f[i].asset = f[j].asset => i = j
  <2> TAKE i \in 1 .. K, j \in 1 .. K
  <2> HAVE f[i].asset = f[j].asset
  <2>1. at[i] \in 1 .. 3 /\ at[j] \in 1 .. 3 /\ <<"a", "b", "none">>[at[i]] = <<"a", "b", "none">>[at[j]]
    BY <1>5, <1>11
  <2>2. at[i] = at[j]
    BY <2>1
  <2> QED
    BY <1>9, <2>2
<1>14. \A i, j \in 1 .. M : copies[i].path = copies[j].path => i = j
  BY <1>6, <1>8, <1>10, <1>12
<1>15. \A k \in 1 .. K, i \in 1 .. M : copies[i].path = f[k].path => copies[i].bytes = f[k].bytes
  BY <1>6, <1>8, <1>12
<1>16. ToldApart(f, copies, K, M)
  BY <1>4, <1>8, <1>12, <1>13, <1>14, <1>15 DEF ToldApart
<1> QED
  BY <1>2, <1>4, <1>16 DEF K, copies

\* A run that copies the catalog's files is one.
LEMMA CopyJobs ==
  ASSUME CopySidecars  PROVE job'.kind = "sidecars" /\ SidecarsOf(job')
<1>1. PICK told \in UpTo(3, {"x", "y"} \X BOOLEAN \X BOOLEAN \X BOOLEAN) :
        \E files \in {SubtitleFiles([k \in DOMAIN told |->
                        SidecarFile(k, <<"beside", k>>, told[k][1], told[k][2], told[k][3], told[k][4])])} :
          job' = SidecarJob(files, StageCopies(files), FALSE)
  BY Zenon DEF CopySidecars
<1> DEFINE e == [k \in DOMAIN told |->
                   SidecarFile(k, <<"beside", k>>, told[k][1], told[k][2], told[k][3], told[k][4])]
           f == SubtitleFiles(e)
           B == {e[k] : k \in DOMAIN e}
<1>2. job' = SidecarJob(f, StageCopies(f), FALSE)
  BY <1>1
<1>3. PICK n \in 0 .. 3 : DOMAIN told = 1 .. n
  BY DEF UpTo
<1>4. e \in Seq(B) /\ Len(e) = n
  <2>1. DOMAIN e = 1 .. n
    BY <1>3
  <2>2. e = [k \in 1 .. n |-> e[k]]
    BY <1>3
  <2>3. \A k \in 1 .. n : e[k] \in B
    BY <2>1
  <2> HIDE DEF e, B
  <2> QED
    BY <1>3, <2>2, <2>3
<1>5. \A k \in 1 .. n : e[k].path = <<"beside", k>> /\ e[k].asset = <<"a", "b", "none">>[k]
  BY <1>3 DEF SidecarFile
<1> HIDE DEF e, B, f
<1>6. f \in Seq(B) /\ \E M \in Nat : ToldApart(f, StageCopies(f), Len(f), M)
  <2>1. n <= 3 /\ f = SubtitleFiles(e)
    BY <1>3 DEF f
  <2> QED
    BY <1>4, <1>5, <2>1, CopiedApart
<1>7. JobOfSidecars(job', f, StageCopies(f))
  BY <1>2, SidecarJobIs, Zenon
<1> QED
  BY <1>6, <1>7, Zenon DEF SidecarsOf, JobOfSidecars

\* So is one that takes a record's files from the folder.
LEMMA FindJobs ==
  ASSUME FindSidecars  PROVE job'.kind = "sidecars" /\ SidecarsOf(job')
<1>1. PICK bytes \in UpTo(3, {"x", "y"}) : \E told \in UpTo(3, {"x", "y"} \X (0 .. 3) \X BOOLEAN) :
        /\ \A k \in DOMAIN told : told[k][2] # 0 => told[k][2] \in DOMAIN bytes /\ bytes[told[k][2]] = told[k][1]
        /\ \A j, k \in DOMAIN told : told[j][2] = told[k][2] => j = k \/ told[j][2] = 0
        /\ \E files \in {[k \in DOMAIN told |->
             SidecarFile(k, IF told[k][2] = 0 THEN <<"beside", k>> ELSE <<"record", told[k][2]>>,
                         told[k][1], TRUE, TRUE, told[k][3])]} :
             job' = SidecarJob(files, RecordedCopies(bytes), TRUE)
  BY Zenon DEF FindSidecars
<1>2. PICK told \in UpTo(3, {"x", "y"} \X (0 .. 3) \X BOOLEAN) :
        /\ \A k \in DOMAIN told : told[k][2] # 0 => told[k][2] \in DOMAIN bytes /\ bytes[told[k][2]] = told[k][1]
        /\ \A j, k \in DOMAIN told : told[j][2] = told[k][2] => j = k \/ told[j][2] = 0
        /\ \E files \in {[k \in DOMAIN told |->
             SidecarFile(k, IF told[k][2] = 0 THEN <<"beside", k>> ELSE <<"record", told[k][2]>>,
                         told[k][1], TRUE, TRUE, told[k][3])]} :
             job' = SidecarJob(files, RecordedCopies(bytes), TRUE)
  BY <1>1, Zenon
<1> DEFINE f == [k \in DOMAIN told |->
                   SidecarFile(k, IF told[k][2] = 0 THEN <<"beside", k>> ELSE <<"record", told[k][2]>>,
                               told[k][1], TRUE, TRUE, told[k][3])]
           copies == RecordedCopies(bytes)
           B == {f[k] : k \in DOMAIN f}
           at(k) == told[k][2]
<1>3. job' = SidecarJob(f, copies, TRUE)
  BY <1>2
<1>4. PICK n \in 0 .. 3 : DOMAIN told = 1 .. n
  BY DEF UpTo
<1>5. PICK m \in 0 .. 3 : DOMAIN bytes = 1 .. m
  BY DEF UpTo
<1>6. f \in Seq(B) /\ Len(f) = n /\ DOMAIN f = 1 .. n
  <2>1. DOMAIN f = 1 .. n
    BY <1>4
  <2>2. f = [k \in 1 .. n |-> f[k]]
    BY <1>4
  <2>3. \A k \in 1 .. n : f[k] \in B
    BY <2>1
  <2> HIDE DEF f, B
  <2> QED
    BY <1>4, <2>1, <2>2, <2>3
<1>7. \A k \in 1 .. n : /\ f[k].path = IF at(k) = 0 THEN <<"beside", k>> ELSE <<"record", at(k)>>
                        /\ f[k].bytes = told[k][1]
  BY <1>4 DEF SidecarFile
<1>8. \A k \in 1 .. n : f[k].asset = <<"a", "b", "none">>[k]
  BY <1>4 DEF SidecarFile
<1>9. DOMAIN copies = 1 .. m /\ \A i \in 1 .. m : copies[i].path = <<"record", i>> /\ copies[i].bytes = bytes[i]
  BY <1>5 DEF RecordedCopies, Copy
<1>10. /\ \A k \in 1 .. n : at(k) # 0 => at(k) \in 1 .. m /\ bytes[at(k)] = told[k][1]
       /\ \A j, k \in 1 .. n : at(j) = at(k) => j = k \/ at(j) = 0
  BY <1>2, <1>4, <1>5
<1> HIDE DEF f, copies, B, at
<1>11. \A i, j \in 1 .. n : f[i].path = f[j].path => i = j
  <2> TAKE i \in 1 .. n, j \in 1 .. n
  <2> HAVE f[i].path = f[j].path
  <2>1. CASE at(i) = 0 /\ at(j) = 0
    <3>1. <<"beside", i>> = <<"beside", j>>
      BY <1>7, <2>1
    <3> QED
      BY <3>1
  <2>2. CASE at(i) # 0 /\ at(j) # 0
    <3>1. <<"record", at(i)>> = <<"record", at(j)>>
      BY <1>7, <2>2
    <3>2. at(i) = at(j)
      BY <3>1
    <3> QED
      BY <1>10, <2>2, <3>2
  <2>3. ASSUME NEW a, NEW b  PROVE <<"beside", a>> # <<"record", b>>
    OBVIOUS
  <2>4. CASE at(i) = 0 /\ at(j) # 0
    <3>1. <<"beside", i>> = <<"record", at(j)>>
      BY <1>7, <2>4
    <3> QED
      BY <2>3, <3>1
  <2>5. CASE at(i) # 0 /\ at(j) = 0
    <3>1. <<"beside", j>> = <<"record", at(i)>>
      BY <1>7, <2>5
    <3> QED
      BY <2>3, <3>1
  <2> QED
    BY <2>1, <2>2, <2>4, <2>5
<1>12. \A i, j \in 1 .. m : copies[i].path = copies[j].path => i = j
  <2> TAKE i \in 1 .. m, j \in 1 .. m
  <2> HAVE copies[i].path = copies[j].path
  <2>1. <<"record", i>> = <<"record", j>>
    BY <1>9
  <2> QED
    BY <2>1
<1>13. \A k \in 1 .. n, i \in 1 .. m : copies[i].path = f[k].path => copies[i].bytes = f[k].bytes
  <2> TAKE k \in 1 .. n, i \in 1 .. m
  <2> HAVE copies[i].path = f[k].path
  <2>1. at(k) # 0
    <3> SUFFICES ASSUME at(k) = 0  PROVE FALSE
      OBVIOUS
    <3>1. <<"record", i>> = <<"beside", k>>
      BY <1>7, <1>9
    <3> QED
      BY <3>1
  <2>2. <<"record", i>> = <<"record", at(k)>>
    BY <1>7, <1>9, <2>1
  <2>3. i = at(k)
    BY <2>2
  <2> QED
    BY <1>7, <1>9, <1>10, <2>1, <2>3
<1>14. \A j, k \in 1 .. n : f[j].asset = f[k].asset => j = k
  <2> TAKE j \in 1 .. n, k \in 1 .. n
  <2> HAVE f[j].asset = f[k].asset
  <2>1. j \in 1 .. 3 /\ k \in 1 .. 3 /\ <<"a", "b", "none">>[j] = <<"a", "b", "none">>[k]
    BY <1>4, <1>8
  <2> QED
    BY <2>1
<1>15. ToldApart(f, copies, Len(f), m) /\ m \in Nat
  BY <1>5, <1>6, <1>9, <1>11, <1>12, <1>13, <1>14 DEF ToldApart
<1>16. JobOfSidecars(job', f, copies)
  BY <1>3, SidecarJobIs, Zenon
<1> QED
  BY <1>6, <1>15, <1>16, Zenon DEF SidecarsOf, JobOfSidecars

\* The handover of such a job.
LEMMA SidecarsTraced ==
  ASSUME NEW j, SidecarsOf(j)
  PROVE  Traced(j.files, j.copies, j.pairs, j.handover)
<1>1. PICK B : j.files \in Seq(B)
  BY DEF SidecarsOf
<1>2. PICK M \in Nat : ToldApart(j.files, j.copies, Len(j.files), M)
  BY DEF SidecarsOf
<1> DEFINE pairs == CopiesOf(Converted(j.files), j.files, j.copies)
<1>3. Traced(j.files, j.copies, pairs, Handover(pairs, j.files, j.copies))
  BY <1>1, <1>2, TracedIs
<1>4. j.pairs = pairs /\ j.handover = Handover(pairs, j.files, j.copies)
  BY Zenon DEF SidecarsOf
<1> HIDE DEF pairs
<1> QED
  BY <1>3, <1>4, Zenon

\* A file ffprobe can't read, or one and what it reads of it.
ReadOrNot(probes) == probes = {} \/ \E q : probes = {q} /\ \A k \in SOURCE_KEYS : q[k] \in Nat

\* What the first probe that has a fact says of it.
ByProbe(probes, k) ==
  {p[k] : p \in {q \in probes : /\ q[k] > 0
                                /\ k \in {"width", "height"} => q.width > 0 /\ q.height > 0}}

\* The handoff's word first, then the probe's.
ByEither(handoff, probes, k) ==
  IF k \in DOMAIN handoff /\ handoff[k] > 0 THEN {handoff[k]} ELSE ByProbe(probes, k)

\* What is said of a fact.
SaidOf(told, k) == {told[j] : j \in {k} \cap DOMAIN told}

\* The facts as the handoff and the probe have them.
FactsTold(handoff, probes, told) ==
  /\ \A k \in SOURCE_KEYS : SaidOf(told, k) = ByEither(handoff, probes, k)
  /\ \A k \in DOMAIN told \ SOURCE_KEYS : told[k] = handoff[k] /\ told[k] # -1

\* A fact is said once, or not.
LEMMA SaidIs ==
  ASSUME NEW told, NEW k
  PROVE  /\ k \in DOMAIN told => SaidOf(told, k) = {told[k]}
         /\ k \notin DOMAIN told => SaidOf(told, k) = {}
<1>1. k \in DOMAIN told => {k} \cap DOMAIN told = {k}
  OBVIOUS
<1>2. k \notin DOMAIN told => {k} \cap DOMAIN told = {}
  OBVIOUS
<1>3. ASSUME k \in DOMAIN told  PROVE SaidOf(told, k) = {told[k]}
  <2>1. SaidOf(told, k) = {told[j] : j \in {k}}
    BY <1>1, <1>3, Zenon DEF SaidOf
  <2> QED
    BY <2>1
<1>4. ASSUME k \notin DOMAIN told  PROVE SaidOf(told, k) = {}
  <2>1. SaidOf(told, k) = {told[j] : j \in {}}
    BY <1>2, <1>4, Zenon DEF SaidOf
  <2> QED
    BY <2>1
<1> QED
  BY <1>3, <1>4

\* What a probe tells: each number it has, a size only whole.
LEMMA ProbeIs ==
  ASSUME NEW probes, ReadOrNot(probes)
  PROVE  /\ DOMAIN ProbeSource(probes) \subseteq SOURCE_KEYS
         /\ \A k \in SOURCE_KEYS : SaidOf(ProbeSource(probes), k) = ByProbe(probes, k)
<1>1. CASE probes = {}
  <2>1. ProbeSource(probes) = << >>
    BY <1>1 DEF ProbeSource
  <2>2. DOMAIN ProbeSource(probes) = {}
    BY <2>1
  <2>3. \A k : ByProbe(probes, k) = {}
    BY <1>1 DEF ByProbe
  <2> QED
    BY <2>2, <2>3, SaidIs
<1>2. CASE probes # {}
  <2>1. PICK q : probes = {q} /\ \A k \in SOURCE_KEYS : q[k] \in Nat
    BY <1>2 DEF ReadOrNot
  <2> DEFINE told == {k \in SOURCE_KEYS : q[k] > 0}
             size == {"width", "height"}
             D == IF size \subseteq told THEN told ELSE told \ size
  <2>2. (CHOOSE x \in probes : TRUE) = q
    BY <2>1
  <2>3. ProbeSource(probes) = [k \in D |-> q[k]]
    BY <1>2, <2>2, Zenon DEF ProbeSource
  <2>4. \A k : k \in D <=> /\ k \in SOURCE_KEYS /\ q[k] > 0
                           /\ k \in size => q["width"] > 0 /\ q["height"] > 0
    <3>1. size \subseteq told <=> q["width"] > 0 /\ q["height"] > 0
      BY DEF SOURCE_KEYS
    <3>2. CASE size \subseteq told
      BY <3>1, <3>2
    <3>3. CASE ~ (size \subseteq told)
      BY <3>1, <3>3
    <3> QED
      BY <3>2, <3>3
  <2> HIDE DEF D
  <2>5. DOMAIN ProbeSource(probes) = D /\ \A k \in D : ProbeSource(probes)[k] = q[k]
    BY <2>3
  <2>6. ASSUME NEW k \in SOURCE_KEYS  PROVE SaidOf(ProbeSource(probes), k) = ByProbe(probes, k)
    <3> DEFINE has(x) == x[k] > 0 /\ (k \in size => x.width > 0 /\ x.height > 0)
    <3>1. ByProbe(probes, k) = {p[k] : p \in {x \in probes : has(x)}}
      BY DEF ByProbe
    <3>2. k \in D <=> has(q)
      BY <2>4
    <3> HIDE DEF has
    <3>3. CASE k \in D
      <4>1. {x \in probes : has(x)} = {q}
        BY <2>1, <3>2, <3>3
      <4>2. ByProbe(probes, k) = {p[k] : p \in {q}}
        BY <3>1, <4>1, Zenon
      <4>3. ByProbe(probes, k) = {q[k]}
        BY <4>2
      <4> QED
        BY <2>5, <3>3, <4>3, SaidIs
    <3>4. CASE k \notin D
      <4>1. {x \in probes : has(x)} = {}
        BY <2>1, <3>2, <3>4
      <4>2. ByProbe(probes, k) = {p[k] : p \in {}}
        BY <3>1, <4>1, Zenon
      <4>3. ByProbe(probes, k) = {}
        BY <4>2
      <4> QED
        BY <2>5, <3>4, <4>3, SaidIs
    <3> QED
      BY <3>3, <3>4
  <2>7. D \subseteq SOURCE_KEYS
    BY <2>4
  <2> QED
    BY <2>5, <2>6, <2>7
<1> QED
  BY <1>1, <1>2

\* The source's block tells each fact once.
LEMMA SourceBlockIs ==
  ASSUME NEW handoff, \A k \in DOMAIN handoff : handoff[k] = -1 \/ handoff[k] \in Nat,
         NEW probes, ReadOrNot(probes)
  PROVE  FactsTold(handoff, probes, SourceBlock(handoff, probes))
<1> DEFINE known == {k \in DOMAIN handoff : handoff[k] # -1 /\ (handoff[k] # 0 \/ k \notin SOURCE_KEYS)}
           found == IF SOURCE_KEYS \subseteq known THEN << >> ELSE ProbeSource(probes)
           told == SourceBlock(handoff, probes)
<1>1. told = [k \in known \cup DOMAIN found |-> IF k \in known THEN handoff[k] ELSE found[k]]
  BY Zenon DEF SourceBlock
<1>2. \A k \in SOURCE_KEYS : k \in known <=> k \in DOMAIN handoff /\ handoff[k] > 0
  OBVIOUS
<1>3. \A k \in known : k \in DOMAIN handoff /\ handoff[k] # -1
  OBVIOUS
<1>4. CASE SOURCE_KEYS \subseteq known
  <2>1. DOMAIN found = {}
    BY <1>4
  <2> HIDE DEF known, found, told
  <2>2. DOMAIN told = known /\ \A k \in known : told[k] = handoff[k]
    BY <1>1, <2>1
  <2> QED
    <3>1. \A k \in SOURCE_KEYS : SaidOf(told, k) = ByEither(handoff, probes, k)
      BY <1>2, <1>4, <2>2, SaidIs DEF ByEither
    <3>2. \A k \in DOMAIN told \ SOURCE_KEYS : told[k] = handoff[k] /\ told[k] # -1
      BY <1>3, <2>2
    <3> QED
      BY <3>1, <3>2, Zenon DEF FactsTold, told
<1>5. CASE ~ (SOURCE_KEYS \subseteq known)
  <2>1. found = ProbeSource(probes)
    BY <1>5
  <2> HIDE DEF known, found, told
  <2>2. DOMAIN found \subseteq SOURCE_KEYS /\ \A k \in SOURCE_KEYS : SaidOf(found, k) = ByProbe(probes, k)
    BY <2>1, ProbeIs
  <2>3. DOMAIN told = known \cup DOMAIN found
    BY <1>1
  <2>4. \A k \in DOMAIN told : told[k] = IF k \in known THEN handoff[k] ELSE found[k]
    BY <1>1, <2>3
  <2>5. ASSUME NEW k \in SOURCE_KEYS  PROVE SaidOf(told, k) = ByEither(handoff, probes, k)
    <3>1. CASE k \in known
      <4>1. k \in DOMAIN told /\ told[k] = handoff[k]
        BY <2>3, <2>4, <3>1
      <4> QED
        BY <1>2, <3>1, <4>1, SaidIs DEF ByEither
    <3>2. CASE k \notin known
      <4>1. ByEither(handoff, probes, k) = SaidOf(found, k)
        BY <1>2, <2>2, <3>2 DEF ByEither
      <4>2. k \in DOMAIN told <=> k \in DOMAIN found
        BY <2>3, <3>2
      <4>3. k \in DOMAIN told => told[k] = found[k]
        BY <2>4, <3>2
      <4>4. CASE k \in DOMAIN found
        BY <4>1, <4>2, <4>3, <4>4, SaidIs
      <4>5. CASE k \notin DOMAIN found
        BY <4>1, <4>2, <4>5, SaidIs
      <4> QED
        BY <4>4, <4>5
    <3> QED
      BY <3>1, <3>2
  <2>6. ASSUME NEW k \in DOMAIN told \ SOURCE_KEYS  PROVE told[k] = handoff[k] /\ told[k] # -1
    BY <1>3, <2>2, <2>3, <2>4
  <2> QED
    BY <2>5, <2>6, Zenon DEF FactsTold, told
<1> QED
  BY <1>4, <1>5

\* The job of a source's facts.
LEMMA FactsJob ==
  ASSUME TellSource
  PROVE  job'.kind = "facts" /\ FactsTold(job'.handoff, job'.probes, job'.source)
<1>1. PICK keys \in SUBSET {"codec", "width", "height", "hdr"} : \E more \in {{}, {"durationMs", "bitRate"}} :
        \E some \in [keys -> {-1, 0, 9}],
           probes \in {{}} \cup {{[k \in SOURCE_KEYS |-> IF k \in lost THEN 0 ELSE 7]} :
                                   lost \in SUBSET {"codec", "width", "height"}} :
          LET handoff == [k \in keys \cup more |-> IF k \in keys THEN some[k] ELSE 9]
          IN job' = [kind |-> "facts", handoff |-> handoff, probes |-> probes, source |-> SourceBlock(handoff, probes)]
  BY Zenon DEF TellSource
<1>2. PICK more \in {{}, {"durationMs", "bitRate"}} :
        \E some \in [keys -> {-1, 0, 9}],
           probes \in {{}} \cup {{[k \in SOURCE_KEYS |-> IF k \in lost THEN 0 ELSE 7]} :
                                   lost \in SUBSET {"codec", "width", "height"}} :
          LET handoff == [k \in keys \cup more |-> IF k \in keys THEN some[k] ELSE 9]
          IN job' = [kind |-> "facts", handoff |-> handoff, probes |-> probes, source |-> SourceBlock(handoff, probes)]
  BY <1>1, Zenon
<1>3. PICK some \in [keys -> {-1, 0, 9}],
           probes \in {{}} \cup {{[k \in SOURCE_KEYS |-> IF k \in lost THEN 0 ELSE 7]} :
                                   lost \in SUBSET {"codec", "width", "height"}} :
          LET handoff == [k \in keys \cup more |-> IF k \in keys THEN some[k] ELSE 9]
          IN job' = [kind |-> "facts", handoff |-> handoff, probes |-> probes, source |-> SourceBlock(handoff, probes)]
  BY <1>2, Zenon
<1> DEFINE handoff == [k \in keys \cup more |-> IF k \in keys THEN some[k] ELSE 9]
<1>4. \A k \in DOMAIN handoff : handoff[k] = -1 \/ handoff[k] \in Nat
  OBVIOUS
<1>5. ReadOrNot(probes)
  <2>1. CASE probes = {}
    BY <2>1 DEF ReadOrNot
  <2>2. CASE probes # {}
    <3>1. PICK lost \in SUBSET {"codec", "width", "height"} :
            probes = {[k \in SOURCE_KEYS |-> IF k \in lost THEN 0 ELSE 7]}
      BY <2>2, Zenon
    <3> DEFINE q == [k \in SOURCE_KEYS |-> IF k \in lost THEN 0 ELSE 7]
    <3>2. \A k \in SOURCE_KEYS : q[k] \in Nat
      OBVIOUS
    <3> HIDE DEF q
    <3>3. probes = {q}
      BY <3>1 DEF q
    <3> QED
      BY <3>2, <3>3, Zenon DEF ReadOrNot
  <2> QED
    BY <2>1, <2>2
<1>6. job' = [kind |-> "facts", handoff |-> handoff, probes |-> probes, source |-> SourceBlock(handoff, probes)]
  BY <1>3, Zenon
<1> HIDE DEF handoff
<1>7. FactsTold(handoff, probes, SourceBlock(handoff, probes))
  BY <1>4, <1>5, SourceBlockIs
<1>8. /\ job'.kind = "facts" /\ job'.handoff = handoff /\ job'.probes = probes
      /\ job'.source = SourceBlock(handoff, probes)
  BY <1>6, Zenon
<1> QED
  BY <1>7, <1>8, Zenon

\* The keys of an extra's manifest are not the item's.
ManifestTold(j) ==
  /\ (j.keys = {}) = (j.trickplay /\ "trickplay" \in j.extra)
  /\ "episodeCode" \in j.keys =>
       "seasonNumber" \in j.keys /\ j.item.season # -1 /\ j.item.episode # -1

\* The job of a manifest.
LEMMA ManifestJob ==
  ASSUME WriteManifest
  PROVE  job'.kind = "manifest" /\ ManifestTold(job')
<1>1. PICK item \in Items, fonts \in BOOLEAN, trickplay \in BOOLEAN,
           extra \in {{}, {"parentId", "extraKind"}, {"trickplay"}} :
        job' = [kind |-> "manifest", item |-> item, trickplay |-> trickplay, extra |-> extra,
                keys |-> KeysOf(item, fonts, trickplay, extra)]
  BY Zenon DEF WriteManifest
<1> DEFINE codes == {"episodeCode" : c \in EpisodeCode(item)}
           own == ManifestKeys \cup (IF fonts THEN {"fonts"} ELSE {})
                    \cup (IF item.type = "episode"
                          THEN {"seriesTitle", "seasonNumber", "episodeNumber"} \cup codes ELSE {})
                    \cup (IF trickplay THEN {"trickplay"} ELSE {})
           keys == KeysOf(item, fonts, trickplay, extra)
<1>2. keys = IF extra \cap own # {} THEN {} ELSE own \cup extra
  BY Zenon DEF KeysOf
<1>3. \A k : k \in codes <=> k = "episodeCode" /\ item.season # -1 /\ item.episode # -1
  BY DEF EpisodeCode
<1> HIDE DEF codes, keys
<1>4. "version" \in own /\ ("trickplay" \in own <=> trickplay) /\ "parentId" \notin own /\ "extraKind" \notin own
  BY <1>3 DEF ManifestKeys
<1>5. "episodeCode" \in own => "seasonNumber" \in own /\ item.season # -1 /\ item.episode # -1
  BY <1>3 DEF ManifestKeys
<1> HIDE DEF own
<1>6. extra \cap own # {} <=> trickplay /\ "trickplay" \in extra
  BY <1>4
<1>7. (keys = {}) = (trickplay /\ "trickplay" \in extra)
  BY <1>2, <1>4, <1>6
<1>8. "episodeCode" \notin extra
  OBVIOUS
<1>9. "episodeCode" \in keys => "seasonNumber" \in keys /\ item.season # -1 /\ item.episode # -1
  BY <1>2, <1>5, <1>8
<1>10. /\ job'.kind = "manifest" /\ job'.item = item /\ job'.trickplay = trickplay /\ job'.extra = extra
       /\ job'.keys = keys
  BY <1>1, Zenon DEF keys
<1> QED
  BY <1>7, <1>9, <1>10, Zenon DEF ManifestTold

\* What a sequence is with one more.
LEMMA AppendIs ==
  ASSUME NEW S, NEW s \in Seq(S), NEW e \in S,
         NEW y \in Seq(S), Len(y) = Len(s) + 1, \A i \in 1 .. Len(s) : y[i] = s[i], y[Len(s) + 1] = e
  PROVE  Append(s, e) = y
<1> DEFINE x == Append(s, e)
<1>1. x \in Seq(S) /\ Len(s) \in Nat /\ Len(x) = Len(s) + 1 /\ x[Len(s) + 1] = e /\ \A i \in 1 .. Len(s) : x[i] = s[i]
  BY AppendLast
<1> HIDE DEF x
<1>2. \A i \in 1 .. Len(x) : x[i] = y[i]
  BY <1>1
<1>3. x = y
  BY <1>1, <1>2, SeqEqual
<1> QED
  BY <1>3 DEF x

\* A sequence of four with one more.
LEMMA FourAppended ==
  ASSUME NEW a, NEW b, NEW c, NEW d, NEW e
  PROVE  Append(<<a, b, c, d>>, e) = <<a, b, c, d, e>>
<1> DEFINE S == {a, b, c, d, e}
           s == <<a, b, c, d>>
           y == <<a, b, c, d, e>>
<1>1. s \in Seq(S) /\ Len(s) = 4 /\ e \in S
  OBVIOUS
<1>2. y \in Seq(S) /\ Len(y) = 5 /\ y[5] = e
  OBVIOUS
<1>3. \A i \in 1 .. 4 : y[i] = s[i]
  OBVIOUS
<1> HIDE DEF S, s, y
<1>4. s \in Seq(S) /\ y \in Seq(S) /\ e \in S /\ Len(y) = Len(s) + 1 /\ y[Len(s) + 1] = e
      /\ \A i \in 1 .. Len(s) : y[i] = s[i]
  BY <1>1, <1>2, <1>3
<1>5. Append(s, e) = y
  BY <1>4, AppendIs, Zenon
<1> QED
  BY <1>5 DEF y, s

\* Where the original of a version is, and what its package is to it.
HandedTold(j) ==
  LET moved == j.lib.mode \in {"establish", "takein"} /\ ~ j.before
      beside == moved \/ j.lib.mode = "add"
  IN /\ j.payload.original = IF moved THEN {<<"lib", "item", "versions", "v", "original">>} ELSE {}
     /\ j.payload.takenIn = (j.lib.mode = "takein") /\ SOURCE_KEYS \subseteq DOMAIN j.payload.source
     /\ \A p \in j.payload.package : ~ j.before => (p.role = "derived") = beside
     /\ Last(j.payload.versionDir) = j.payload.versionId /\ Last(j.extra.extraDir) = j.extra.extraId

\* The job of a handover to the catalog.
LEMMA HandedJob ==
  ASSUME HandOver
  PROVE  job'.kind = "handed" /\ HandedTold(job')
<1>1. PICK mode \in BUILD_MODES \cup {"none"}, again \in BOOLEAN, before \in BOOLEAN :
       LET lib == Block(mode)
           keeps == IF before THEN {} ELSE {OriginalName(lib)} \ {"none"}
           package == [role |-> IF before THEN "canonical" ELSE RoleOf(lib)]
       IN /\ before => again
          /\ job' = [kind |-> "handed", lib |-> lib, again |-> again, before |-> before,
                     payload |-> LET original == OriginalIn(lib, again, keeps)
                                 IN IF mode = "takein" THEN TakeinPayload(lib, original, {Facts})
                                    ELSE VersionPayload(lib, {package}, original, Facts),
                     extra |-> ExtraPayload("e", ExtraBlock, package, Facts)]
  BY Zenon DEF HandOver
<1> DEFINE lib == Block(mode)
           keeps == IF before THEN {} ELSE {OriginalName(lib)} \ {"none"}
           package == [role |-> IF before THEN "canonical" ELSE RoleOf(lib)]
           original == OriginalIn(lib, again, keeps)
           taken == SourceBlock(<< >>, {Facts})
           payload == IF mode = "takein" THEN TakeinPayload(lib, original, {Facts})
                      ELSE VersionPayload(lib, {package}, original, Facts)
           extra == ExtraPayload("e", ExtraBlock, package, Facts)
           moved == mode \in {"establish", "takein"} /\ ~ before
<1>2. job' = [kind |-> "handed", lib |-> lib, again |-> again, before |-> before, payload |-> payload, extra |-> extra]
      /\ (before => again)
  BY <1>1, Zenon
<1>3. /\ lib.mode = mode /\ lib.versionDir = <<"lib", "item", "versions", "v">> /\ lib.versionId = "v"
      /\ lib.originalName = "original"
  BY DEF Block
<1>4. OriginalName(lib) = IF mode \in {"establish", "takein"} THEN "original" ELSE "none"
  BY <1>3 DEF OriginalName, MOVES_ORIGINAL
<1>5. original = IF moved THEN {<<"lib", "item", "versions", "v", "original">>} ELSE {}
  <2>1. Append(lib.versionDir, "original") = <<"lib", "item", "versions", "v", "original">>
    <3> QED
      BY <1>3, FourAppended, Zenon
  <2> HIDE DEF lib
  <2>2. CASE moved
    BY <1>2, <1>4, <2>1, <2>2 DEF OriginalIn
  <2>3. CASE ~ moved
    BY <1>2, <1>4, <2>3 DEF OriginalIn
  <2> QED
    BY <2>2, <2>3
<1>6. package.role = IF before THEN "canonical"
                     ELSE IF mode = "add" \/ mode \in {"establish", "takein"} THEN "derived" ELSE "canonical"
  BY <1>3, <1>4 DEF RoleOf
<1>7. \A k \in SOURCE_KEYS : Facts[k] = 7
  BY DEF Facts
<1>8. DOMAIN Facts = SOURCE_KEYS
  BY DEF Facts
<1>9. SOURCE_KEYS \subseteq DOMAIN taken
  <2>1. ReadOrNot({Facts})
    BY <1>7 DEF ReadOrNot
  <2>2. FactsTold(<< >>, {Facts}, taken)
    <3>1. DOMAIN << >> = {}
      OBVIOUS
    <3> QED
      BY <2>1, <3>1, SourceBlockIs
  <2>3. ASSUME NEW k \in SOURCE_KEYS, k \notin DOMAIN taken  PROVE FALSE
    <3>1. SaidOf(taken, k) = {}
      BY <2>3, SaidIs
    <3>2. ByEither(<< >>, {Facts}, k) = ByProbe({Facts}, k)
      BY DEF ByEither
    <3>3. ByProbe({Facts}, k) = {}
      BY <2>2, <3>1, <3>2, Zenon DEF FactsTold
    <3>4. Facts[k] > 0 /\ Facts.width > 0 /\ Facts.height > 0
      BY <1>7 DEF SOURCE_KEYS
    <3>5. Facts[k] \in ByProbe({Facts}, k)
      BY <3>4 DEF ByProbe
    <3> QED
      BY <3>3, <3>5
  <2> QED
    BY <2>3
<1>10. /\ extra.extraDir = <<"lib", "item", "extras", "e">> /\ extra.extraId = "e"
  <2>1. extra.extraDir = ExtraBlock.versionDir /\ extra.extraId = "e"
    BY DEF ExtraPayload
  <2>2. ExtraBlock.versionDir = <<"lib", "item", "extras", "e">>
    BY DEF ExtraBlock, Block
  <2> QED
    BY <2>1, <2>2
<1> HIDE DEF lib, original, package, taken, extra, keeps
<1>11. /\ payload.original = original /\ payload.takenIn = (mode = "takein")
       /\ payload.versionDir = lib.versionDir /\ payload.versionId = lib.versionId
       /\ SOURCE_KEYS \subseteq DOMAIN payload.source
       /\ payload.package = IF mode = "takein" THEN {} ELSE {package}
  <2>1. CASE mode = "takein"
    <3>1. payload = [versionId |-> lib.versionId, versionDir |-> lib.versionDir, sourceId |-> lib.sourceId,
                     takenIn |-> TRUE, package |-> {}, original |-> original, source |-> taken]
      BY <2>1 DEF TakeinPayload, VersionPayload, taken
    <3> HIDE DEF payload
    <3> QED
      BY <1>9, <2>1, <3>1
  <2>2. CASE mode # "takein"
    <3>1. payload = [versionId |-> lib.versionId, versionDir |-> lib.versionDir, sourceId |-> lib.sourceId,
                     takenIn |-> FALSE, package |-> {package}, original |-> original, source |-> Facts]
      BY <2>2 DEF VersionPayload
    <3> HIDE DEF payload
    <3> QED
      BY <1>8, <2>2, <3>1
  <2> QED
    BY <2>1, <2>2
<1> HIDE DEF payload
<1>12. \A p \in payload.package : ~ before => (p.role = "derived") = (moved \/ mode = "add")
  BY <1>6, <1>11
<1>13. Last(payload.versionDir) = payload.versionId /\ Last(extra.extraDir) = extra.extraId
  BY <1>3, <1>10, <1>11 DEF Last
<1>14. /\ job'.kind = "handed" /\ job'.lib = lib /\ job'.before = before /\ job'.payload = payload /\ job'.extra = extra
  BY <1>2
<1> QED
  BY <1>3, <1>5, <1>11, <1>12, <1>13, <1>14, Zenon DEF HandedTold

\* A packaged track's codec is a source track's, and of those of its codec it
\* passes no one over: `kept` are the places they are carried from.
CarriedFrom(kept, packaged, source, L, N) ==
  /\ DOMAIN kept = 1 .. L /\ packaged \in Seq(Range(packaged)) /\ Len(packaged) = L /\ Len(source) = N
  /\ DOMAIN source = 1 .. N /\ DOMAIN packaged = 1 .. L
  /\ \A p \in 1 .. L : kept[p] \in 1 .. N /\ packaged[p].codec = source[kept[p]].codec
  /\ \A p, q \in 1 .. L : p < q => kept[p] < kept[q]
  /\ \A p \in 1 .. L, j \in 1 .. N : source[j].codec = source[kept[p]].codec => \E i \in 1 .. L : kept[i] = j

\* The scan of the source for packaged track n, from after the track v.
ScanFrom(packaged, source, n, v) ==
  LET left == {j \in DOMAIN source : j > v /\ source[j].codec = packaged[n].codec}
  IN IF left = {} THEN Len(source) + 1 ELSE CHOOSE j \in left : \A k \in left : j <= k

\* The scan finds each track where it was carried from.
LEMMA ScanFinds ==
  ASSUME NEW L \in Nat, NEW N \in Nat, NEW kept, NEW packaged, NEW source, CarriedFrom(kept, packaged, source, L, N),
         NEW n \in 1 .. L, NEW v, v = IF n = 1 THEN 0 ELSE kept[n - 1]
  PROVE  ScanFrom(packaged, source, n, v) = kept[n]
<1> DEFINE left == {j \in DOMAIN source : j > v /\ source[j].codec = packaged[n].codec}
<1>1. /\ DOMAIN source = 1 .. N
      /\ \A p \in 1 .. L : kept[p] \in 1 .. N /\ packaged[p].codec = source[kept[p]].codec
      /\ \A p, q \in 1 .. L : p < q => kept[p] < kept[q]
      /\ \A p \in 1 .. L, j \in 1 .. N : source[j].codec = source[kept[p]].codec => \E i \in 1 .. L : kept[i] = j
  BY DEF CarriedFrom
<1>2. v \in Nat /\ kept[n] > v /\ kept[n] \in 1 .. N
  <2>1. CASE n = 1
    BY <1>1, <2>1
  <2>2. CASE n # 1
    <3>1. n - 1 \in 1 .. L /\ n - 1 < n
      BY <2>2
    <3> QED
      BY <1>1, <2>2, <3>1
  <2> QED
    BY <2>1, <2>2
<1>3. kept[n] \in left
  BY <1>1, <1>2
<1>4. ASSUME NEW j \in left  PROVE kept[n] <= j
  <2>1. j \in 1 .. N /\ j > v /\ source[j].codec = source[kept[n]].codec
    BY <1>1
  <2>2. PICK i \in 1 .. L : kept[i] = j
    BY <1>1, <2>1
  <2>3. CASE i = n
    BY <1>1, <2>2, <2>3
  <2>4. CASE n < i
    BY <1>1, <2>2, <2>4
  <2>5. CASE i < n
    <3>1. n # 1 /\ n - 1 \in 1 .. L /\ v = kept[n - 1] /\ (i = n - 1 \/ i < n - 1)
      BY <2>5
    <3>2. kept[i] <= kept[n - 1]
      BY <1>1, <3>1
    <3> QED
      BY <1>1, <2>1, <2>2, <3>1, <3>2
  <2> QED
    BY <2>3, <2>4, <2>5
<1>5. ScanFrom(packaged, source, n, v) =
        IF left = {} THEN Len(source) + 1 ELSE CHOOSE j \in left : \A k \in left : j <= k
  BY DEF ScanFrom
<1>6. \A j \in left : j \in 1 .. N
  BY <1>1
<1> HIDE DEF left
<1> DEFINE m == CHOOSE j \in left : \A k \in left : j <= k
<1>7. m \in left /\ \A k \in left : m <= k
  BY <1>3, <1>4
<1> HIDE DEF m
<1>8. m = kept[n]
  BY <1>2, <1>3, <1>4, <1>6, <1>7
<1> QED
  BY <1>3, <1>5, <1>8 DEF m

\* So each one's place is that.
LEMMA OrdinalsAre ==
  ASSUME NEW L \in Nat, NEW N \in Nat, NEW kept, NEW packaged, NEW source, CarriedFrom(kept, packaged, source, L, N)
  PROVE  DOMAIN SourceOrdinals(packaged, source) = 1 .. L
         /\ \A p \in 1 .. L : SourceOrdinals(packaged, source)[p] = kept[p]
<1> DEFINE Good(f) == f = [i \in 0 .. L |-> IF i = 0 THEN 0 ELSE ScanFrom(packaged, source, i, f[i - 1])]
           some == CHOOSE f : Good(f)
           known == [i \in 0 .. L |-> IF i = 0 THEN 0 ELSE kept[i]]
           at == NextOrdinals(packaged, source)
<1>1. Len(packaged) = L /\ Len(source) = N /\ DOMAIN packaged = 1 .. L /\ \A p \in 1 .. L : kept[p] \in 1 .. N
  BY DEF CarriedFrom
<1>2. at = some
  BY <1>1, Zenon DEF NextOrdinals, ScanFrom
<1>3. Good(known)
  <2>1. \A i \in 1 .. L : known[i] = kept[i] /\ known[i - 1] = IF i = 1 THEN 0 ELSE kept[i - 1]
    OBVIOUS
  <2>2. \A i \in 0 .. L : i = 0 \/ i \in 1 .. L
    OBVIOUS
  <2>3. known[0] = 0 /\ known = [i \in 0 .. L |-> known[i]]
    OBVIOUS
  <2> HIDE DEF known
  <2>4. \A i \in 1 .. L : known[i] = ScanFrom(packaged, source, i, known[i - 1])
    BY <2>1, ScanFinds
  <2>5. \A i \in 0 .. L : known[i] = IF i = 0 THEN 0 ELSE ScanFrom(packaged, source, i, known[i - 1])
    BY <2>2, <2>3, <2>4
  <2> QED
    BY <2>3, <2>5, Zenon
<1>4. Good(some)
  <2> HIDE DEF Good, known
  <2> QED
    BY <1>3
<1> HIDE DEF some, at
<1>5. some[0] = 0 /\ \A i \in 1 .. L : some[i] = ScanFrom(packaged, source, i, some[i - 1])
  <2>1. \A i \in 1 .. L : i \in 0 .. L /\ i # 0
    OBVIOUS
  <2>2. 0 \in 0 .. L
    OBVIOUS
  <2> QED
    BY <1>4, <2>1, <2>2, Zenon
<1> HIDE DEF Good
<1> DEFINE bad == {i \in 1 .. L : some[i] # kept[i]}
<1>6. bad = {}
  <2> SUFFICES ASSUME bad # {}  PROVE FALSE
    OBVIOUS
  <2>1. bad \subseteq Nat
    OBVIOUS
  <2>2. PICK m \in bad : \A k \in bad : m <= k
    <3> HIDE DEF bad
    <3> QED
      BY <2>1, LeastNumber
  <2>3. some[m - 1] = IF m = 1 THEN 0 ELSE kept[m - 1]
    <3>1. CASE m = 1
      BY <1>5, <3>1
    <3>2. CASE m # 1
      <4>1. m - 1 \in 1 .. L /\ ~ (m <= m - 1)
        BY <3>2
      <4> QED
        BY <2>2, <3>2, <4>1
    <3> QED
      BY <3>1, <3>2
  <2>4. ScanFrom(packaged, source, m, some[m - 1]) = kept[m]
    BY <2>3, ScanFinds
  <2> QED
    BY <1>5, <2>4
<1>7. \A i \in 1 .. L : at[i] = kept[i] /\ at[i] <= Len(source)
  BY <1>1, <1>2, <1>6
<1>8. SourceOrdinals(packaged, source) =
        [i \in DOMAIN packaged |-> IF \A k \in DOMAIN packaged : at[k] <= Len(source) THEN at[i] ELSE i]
  BY Zenon DEF SourceOrdinals, at
<1> QED
  BY <1>1, <1>7, <1>8

\* What an encode carries of its source, with where it comes from.
LEMMA CarriedIs ==
  ASSUME NEW B, NEW source \in Seq(B), NEW dropped, NEW kept, kept = Carried(source, dropped),
         NEW packaged, packaged = [p \in DOMAIN kept |-> source[kept[p]]]
  PROVE  Len(kept) \in Nat /\ CarriedFrom(kept, packaged, source, Len(kept), Len(source))
<1> DEFINE P == {i \in DOMAIN source : source[i].codec \notin dropped}
           N == Len(source)
           L == Len(kept)
<1>1. N \in Nat /\ DOMAIN source = 1 .. N /\ P \in SUBSET (1 .. N)
  OBVIOUS
<1>2. kept = InOrder(P, N)
  BY DEF Carried
<1>3. \A j \in 1 .. N : j \in P <=> source[j].codec \notin dropped
  BY <1>1
<1> HIDE DEF P, N
<1>4. /\ kept \in Seq(P) /\ \A k \in P : \E i \in 1 .. L : kept[i] = k
      /\ \A i, j \in 1 .. L : i < j => kept[i] < kept[j]
  BY <1>1, <1>2, InOrderIs
<1>5. L \in Nat /\ DOMAIN kept = 1 .. L /\ \A p \in 1 .. L : kept[p] \in P
  BY <1>4
<1>6. DOMAIN packaged = 1 .. L /\ \A p \in 1 .. L : packaged[p] = source[kept[p]]
  BY <1>5
<1>7. packaged \in Seq(Range(packaged)) /\ Len(packaged) = L
  <2>1. packaged = [p \in 1 .. L |-> packaged[p]]
    BY <1>5
  <2>2. \A p \in 1 .. L : packaged[p] \in Range(packaged)
    BY <1>6, Zenon DEF Range
  <2> QED
    BY <1>5, <2>1, <2>2
<1>8. \A p \in 1 .. L, j \in 1 .. N : source[j].codec = source[kept[p]].codec => \E i \in 1 .. L : kept[i] = j
  BY <1>1, <1>3, <1>4, <1>5
<1>9. \A p \in 1 .. L : kept[p] \in 1 .. N /\ packaged[p].codec = source[kept[p]].codec
  BY <1>1, <1>5, <1>6
<1> QED
  BY <1>1, <1>4, <1>5, <1>6, <1>7, <1>8, <1>9 DEF CarriedFrom, N

\* A source's tracks are carried from themselves.
LEMMA CarriedAll ==
  ASSUME NEW B, NEW source \in Seq(B)
  PROVE  CarriedFrom([p \in 1 .. Len(source) |-> p], source, source, Len(source), Len(source))
<1> DEFINE N == Len(source)
           kept == [p \in 1 .. N |-> p]
<1>1. N \in Nat /\ DOMAIN source = 1 .. N
  OBVIOUS
<1>2. DOMAIN kept = 1 .. N /\ \A p \in 1 .. N : kept[p] = p
  OBVIOUS
<1>3. source \in Seq(Range(source))
  <2>1. source = [p \in 1 .. N |-> source[p]]
    BY <1>1
  <2>2. \A p \in 1 .. N : source[p] \in Range(source)
    BY <1>1, Zenon DEF Range
  <2> HIDE DEF N
  <2> QED
    BY <1>1, <2>1, <2>2
<1> HIDE DEF kept, N
<1>4. CarriedFrom(kept, source, source, N, N)
  BY <1>1, <1>2, <1>3 DEF CarriedFrom, N
<1> QED
  BY <1>4 DEF kept, N

\* The tags that name a language by a code the packager has for it.
KnownTag(tag) == tag.base \in ({"de", "pt", "nb"} \cup ThreeLetters) \ {"und"}

\* The tags an extra is registered with.
ExtraTag(tag) ==
  tag.base \in {"", "de", "pt", "ger", "gsw", "por", "nb", "deutsch", "cy", "deu", "nob", "und", "zxx"}

\* The least of a set of numbers that is one.
LEMMA MinIs ==
  ASSUME NEW S \in SUBSET Nat, NEW x \in S, \A y \in S : x <= y
  PROVE  Min(S) = x
<1>1. \A z \in S : (\A y \in S : z <= y) => z = x
  OBVIOUS
<1>2. Min(S) = CHOOSE z \in S : \A y \in S : z <= y
  BY Zenon DEF Min
<1> QED
  BY <1>1, <1>2

\* The least of {1, 2}, and of a single number.
LEMMA Mins ==
  Min({1, 2}) = 1 /\ \A n \in Nat : Min({n}) = n
<1>1. ASSUME NEW n \in Nat  PROVE Min({n}) = n
  <2>1. {n} \in SUBSET Nat /\ n \in {n} /\ \A y \in {n} : n <= y
    OBVIOUS
  <2> QED
    BY <2>1, MinIs, Zenon
<1>2. {1, 2} \in SUBSET Nat /\ 1 \in {1, 2} /\ \A y \in {1, 2} : 1 <= y
  OBVIOUS
<1>3. Min({1, 2}) = 1
  BY <1>2, MinIs, Zenon
<1> QED
  BY <1>1, <1>3

\* The rows of the table of codes.
LEMMA CodeTable ==
  /\ \A i : i \in DOMAIN ISO639_1 <=> i \in {1, 2, 3, 4}
  /\ ISO639_1[1][1] = "deu" /\ ISO639_1[2][1] = "ger" /\ ISO639_1[3][1] = "por" /\ ISO639_1[4][1] = "nob"
  /\ ISO639_1[1][2] = "de" /\ ISO639_1[2][2] = "de" /\ ISO639_1[3][2] = "pt" /\ ISO639_1[4][2] = "nb"
<1>1. DOMAIN ISO639_1 = 1 .. 4
  BY DEF ISO639_1
<1>2. /\ ISO639_1[1] = <<"deu", "de">> /\ ISO639_1[2] = <<"ger", "de">>
      /\ ISO639_1[3] = <<"por", "pt">> /\ ISO639_1[4] = <<"nob", "nb">>
  BY DEF ISO639_1
<1> QED
  BY <1>1, <1>2

\* The code of a tag and the key of it: the tag's own, of the tags that have
\* one.
LEMMA CodesAre ==
  ASSUME NEW tag, ExtraTag(tag)
  PROVE  /\ ~ KnownTag(tag) => ISO639_2(tag) = {}
         /\ KnownTag(tag) => \E code : /\ ISO639_2(tag) = {code} /\ LanguageCode(code)
                                       /\ LangKey(LangTag(code, 0)) = LangKey(tag)
<1> DEFINE b == tag.base
           rows == {i \in DOMAIN ISO639_1 : ISO639_1[i][2] = b}
           keys(c) == {i \in DOMAIN ISO639_1 : ISO639_1[i][1] = c}
<1>1. \A i \in DOMAIN ISO639_1 : i = 1 \/ i = 2 \/ i = 3 \/ i = 4
  BY CodeTable
<1>2. /\ ISO639_1[1][1] = "deu" /\ ISO639_1[2][1] = "ger" /\ ISO639_1[3][1] = "por" /\ ISO639_1[4][1] = "nob"
      /\ ISO639_1[1][2] = "de" /\ ISO639_1[2][2] = "de" /\ ISO639_1[3][2] = "pt" /\ ISO639_1[4][2] = "nb"
  BY CodeTable
<1>3. 1 \in DOMAIN ISO639_1 /\ 2 \in DOMAIN ISO639_1 /\ 3 \in DOMAIN ISO639_1 /\ 4 \in DOMAIN ISO639_1
  BY CodeTable
<1>4. ISO639_2(tag) = IF rows # {} THEN {ISO639_1[Min(rows)][1]}
                      ELSE IF LanguageCode(b) /\ b # "und" THEN {b} ELSE {}
  BY DEF ISO639_2
<1>5. ASSUME NEW t  PROVE LangKey(t) = IF t.base = "" THEN "und"
                                       ELSE IF keys(t.base) = {} THEN t.base ELSE ISO639_1[Min(keys(t.base))][2]
  BY DEF LangKey
<1>6. \A c : LangTag(c, 0).base = c
  BY DEF LangTag
<1>7. LanguageCode(b) <=> b \in {"ger", "deu", "por", "nob", "gsw", "und", "zxx"}
  BY DEF LanguageCode, ThreeLetters
<1>8. KnownTag(tag) <=> b \in {"de", "pt", "nb", "ger", "deu", "por", "nob", "gsw", "zxx"}
  BY DEF KnownTag, ThreeLetters
<1>9. LanguageCode("deu") /\ LanguageCode("por") /\ LanguageCode("nob")
  BY DEF LanguageCode, ThreeLetters
<1> HIDE DEF b, rows, keys
<1>10. CASE b = "de"
  <2>1. rows = {1, 2}
    BY <1>1, <1>2, <1>3, <1>10 DEF rows
  <2>2. Min(rows) = 1
    BY <2>1, Mins, Zenon
  <2>3. ISO639_2(tag) = {"deu"}
    BY <1>2, <1>4, <2>1, <2>2
  <2>4. keys("deu") = {1} /\ keys("de") = {}
    BY <1>1, <1>2, <1>3 DEF keys
  <2>5. Min(keys("deu")) = 1
    BY <2>4, Mins, Zenon
  <2>6. LangKey(LangTag("deu", 0)) = "de" /\ LangKey(tag) = "de"
    <3>1. LangTag("deu", 0).base = "deu" /\ "deu" # "" /\ tag.base = "de" /\ "de" # ""
      BY <1>6, <1>10 DEF b
    <3>2. keys("deu") # {}
      BY <2>4
    <3>3. LangKey(LangTag("deu", 0)) = ISO639_1[Min(keys("deu"))][2]
      BY <1>5, <3>1, <3>2, Zenon
    <3>4. LangKey(tag) = "de"
      BY <1>5, <2>4, <3>1, Zenon
    <3> QED
      BY <1>2, <2>5, <3>3, <3>4
  <2> QED
    BY <1>8, <1>9, <1>10, <2>3, <2>6
<1>11. CASE b = "pt"
  <2>1. rows = {3}
    BY <1>1, <1>2, <1>3, <1>11 DEF rows
  <2>2. Min(rows) = 3
    BY <2>1, Mins, Zenon
  <2>3. ISO639_2(tag) = {"por"}
    BY <1>2, <1>4, <2>1, <2>2
  <2>4. keys("por") = {3} /\ keys("pt") = {}
    BY <1>1, <1>2, <1>3 DEF keys
  <2>5. Min(keys("por")) = 3
    BY <2>4, Mins, Zenon
  <2>6. LangKey(LangTag("por", 0)) = "pt" /\ LangKey(tag) = "pt"
    <3>1. LangTag("por", 0).base = "por" /\ "por" # "" /\ tag.base = "pt" /\ "pt" # ""
      BY <1>6, <1>11 DEF b
    <3>2. keys("por") # {}
      BY <2>4
    <3>3. LangKey(LangTag("por", 0)) = ISO639_1[Min(keys("por"))][2]
      BY <1>5, <3>1, <3>2, Zenon
    <3>4. LangKey(tag) = "pt"
      BY <1>5, <2>4, <3>1, Zenon
    <3> QED
      BY <1>2, <2>5, <3>3, <3>4
  <2> QED
    BY <1>8, <1>9, <1>11, <2>3, <2>6
<1>12. CASE b = "nb"
  <2>1. rows = {4}
    BY <1>1, <1>2, <1>3, <1>12 DEF rows
  <2>2. Min(rows) = 4
    BY <2>1, Mins, Zenon
  <2>3. ISO639_2(tag) = {"nob"}
    BY <1>2, <1>4, <2>1, <2>2
  <2>4. keys("nob") = {4} /\ keys("nb") = {}
    BY <1>1, <1>2, <1>3 DEF keys
  <2>5. Min(keys("nob")) = 4
    BY <2>4, Mins, Zenon
  <2>6. LangKey(LangTag("nob", 0)) = "nb" /\ LangKey(tag) = "nb"
    <3>1. LangTag("nob", 0).base = "nob" /\ "nob" # "" /\ tag.base = "nb" /\ "nb" # ""
      BY <1>6, <1>12 DEF b
    <3>2. keys("nob") # {}
      BY <2>4
    <3>3. LangKey(LangTag("nob", 0)) = ISO639_1[Min(keys("nob"))][2]
      BY <1>5, <3>1, <3>2, Zenon
    <3>4. LangKey(tag) = "nb"
      BY <1>5, <2>4, <3>1, Zenon
    <3> QED
      BY <1>2, <2>5, <3>3, <3>4
  <2> QED
    BY <1>8, <1>9, <1>12, <2>3, <2>6
<1>13. CASE b \notin {"de", "pt", "nb"}
  <2>1. rows = {}
    BY <1>1, <1>2, <1>13 DEF rows
  <2>2. ISO639_2(tag) = IF LanguageCode(b) /\ b # "und" THEN {b} ELSE {}
    BY <1>4, <2>1
  <2>3. LangKey(LangTag(b, 0)) = LangKey(tag)
    BY <1>5, <1>6 DEF b
  <2>4. KnownTag(tag) <=> LanguageCode(b) /\ b # "und"
    BY <1>7, <1>8, <1>13
  <2> QED
    BY <2>2, <2>3, <2>4
<1> QED
  BY <1>10, <1>11, <1>12, <1>13

\* No override of nothing.
LEMMA OverridesOfNone ==
  ASSUME NEW entries, DOMAIN entries = {}
  PROVE  DOMAIN TrackOverrides(entries) = {}
BY DEF TrackOverrides

\* One of one entry.
LEMMA OverridesOfOne ==
  ASSUME NEW entries, DOMAIN entries = {1}, entries[1].kind = "audio", entries[1].ordinal = 1, entries[1].valid
  PROVE  /\ DOMAIN TrackOverrides(entries) = {<<"audio", 1>>}
         /\ TrackOverrides(entries)[<<"audio", 1>>] = entries[1].lang
<1> DEFINE good(i) == entries[i].kind \in {"audio", "subtitle"} /\ entries[i].ordinal >= 1 /\ entries[i].valid
           track(i) == <<entries[i].kind, entries[i].ordinal>>
           named == {track(i) : i \in {j \in DOMAIN entries : good(j)}}
           last(k) == CHOOSE i \in DOMAIN entries :
                        /\ good(i) /\ track(i) = k
                        /\ \A j \in DOMAIN entries : j > i /\ good(j) => track(j) # k
<1>1. TrackOverrides(entries) = [k \in named |-> entries[last(k)].lang]
  BY Zenon DEF TrackOverrides
<1>2. good(1)
  OBVIOUS
<1>3. track(1) = <<"audio", 1>>
  BY Zenon
<1> HIDE DEF good, track
<1>4. named = {<<"audio", 1>>}
  <2>1. {j \in DOMAIN entries : good(j)} = {1}
    BY <1>2
  <2>2. named = {track(i) : i \in {1}}
    BY <2>1, Zenon
  <2> QED
    BY <1>3, <2>2
<1>5. last(<<"audio", 1>>) = 1
  <2>1. \A j \in DOMAIN entries : ~ (j > 1) /\ j = 1
    OBVIOUS
  <2> QED
    BY <1>2, <1>3, <2>1
<1> HIDE DEF named, last
<1> QED
  BY <1>1, <1>4, <1>5

\* An entry for the first audio track, where the tag names a language.
LEMMA EntriesAre ==
  ASSUME NEW tag, ExtraTag(tag)
  PROVE  /\ ~ KnownTag(tag) => TrackLanguages(tag) = <<>>
         /\ KnownTag(tag) => TrackLanguages(tag) =
              <<[kind |-> "audio", ordinal |-> 1, lang |-> LangKey(tag), valid |-> TRUE]>>
<1>1. ASSUME ~ KnownTag(tag)  PROVE TrackLanguages(tag) = <<>>
  <2>1. ISO639_2(tag) = {}
    BY <1>1, CodesAre
  <2> QED
    BY <2>1, Zenon DEF TrackLanguages
<1>2. ASSUME KnownTag(tag)
      PROVE  TrackLanguages(tag) = <<[kind |-> "audio", ordinal |-> 1, lang |-> LangKey(tag), valid |-> TRUE]>>
  <2>1. PICK code : /\ ISO639_2(tag) = {code} /\ LanguageCode(code)
                    /\ LangKey(LangTag(code, 0)) = LangKey(tag)
    BY <1>2, CodesAre
  <2>2. (CHOOSE c \in ISO639_2(tag) : TRUE) = code /\ ISO639_2(tag) # {}
    BY <2>1
  <2>3. TrackLanguages(tag) =
          <<[kind |-> "audio", ordinal |-> 1, lang |-> LangKey(LangTag(code, 0)), valid |-> LanguageCode(code)]>>
    BY <2>2, Zenon DEF TrackLanguages
  <2>4. LanguageCode(code) = TRUE
    BY <2>1 DEF LanguageCode
  <2> QED
    BY <2>1, <2>3, <2>4, Zenon
<1> QED
  BY <1>1, <1>2

\* The overrides that a tag gives.
LEMMA OverridesAre ==
  ASSUME NEW tag, ExtraTag(tag)
  PROVE  /\ ~ KnownTag(tag) => DOMAIN TrackOverrides(TrackLanguages(tag)) = {}
         /\ KnownTag(tag) => /\ DOMAIN TrackOverrides(TrackLanguages(tag)) = {<<"audio", 1>>}
                             /\ TrackOverrides(TrackLanguages(tag))[<<"audio", 1>>] = LangKey(tag)
<1>1. ASSUME ~ KnownTag(tag)  PROVE DOMAIN TrackOverrides(TrackLanguages(tag)) = {}
  <2>1. DOMAIN TrackLanguages(tag) = {}
    <3>1. TrackLanguages(tag) = <<>>
      BY <1>1, EntriesAre
    <3> QED
      BY <3>1
  <2> QED
    BY <2>1, OverridesOfNone, Zenon
<1>2. ASSUME KnownTag(tag)
      PROVE  /\ DOMAIN TrackOverrides(TrackLanguages(tag)) = {<<"audio", 1>>}
             /\ TrackOverrides(TrackLanguages(tag))[<<"audio", 1>>] = LangKey(tag)
  <2> DEFINE e == [kind |-> "audio", ordinal |-> 1, lang |-> LangKey(tag), valid |-> TRUE]
             entries == TrackLanguages(tag)
  <2>1. entries = <<e>>
    BY <1>2, EntriesAre, Zenon
  <2>2. e.kind = "audio" /\ e.ordinal = 1 /\ e.lang = LangKey(tag) /\ e.valid
    OBVIOUS
  <2> HIDE DEF e, entries
  <2>3. DOMAIN entries = {1} /\ entries[1] = e
    BY <2>1
  <2>4. entries[1].kind = "audio" /\ entries[1].ordinal = 1 /\ entries[1].valid
    BY <2>2, <2>3, Zenon
  <2>5. /\ DOMAIN TrackOverrides(entries) = {<<"audio", 1>>}
        /\ TrackOverrides(entries)[<<"audio", 1>>] = entries[1].lang
    BY <2>3, <2>4, OverridesOfOne, Zenon
  <2> QED
    BY <2>2, <2>3, <2>5, Zenon DEF entries
<1> QED
  BY <1>1, <1>2

\* The tracks of an extra, with the language it is registered by.
SpokenTold(j) ==
  \A p \in DOMAIN j.tracks :
    j.tracks[p].lang = IF KnownTag(j.tag) /\ j.first[p] THEN LangKey(j.tag) ELSE j.packaged[p].lang

\* The packaged tracks' places in the source.
PlacedAs(streams, source, ord, L) == \A p \in 1 .. L : SourceOrdinals(streams, source)[p] = ord[p]

\* A carried track has the place it is carried from.
LEMMA Placed ==
  ASSUME NEW L \in Nat, NEW N \in Nat, NEW kept, NEW packaged, NEW source, CarriedFrom(kept, packaged, source, L, N)
  PROVE  PlacedAs(packaged, source, kept, L)
  BY OrdinalsAre DEF PlacedAs

\* One override, of the first track, or none.
OverrideOf(over, known, lang) ==
  /\ ~ known => DOMAIN over = {}
  /\ known => DOMAIN over = {<<"audio", 1>>} /\ over[<<"audio", 1>>] = lang

\* Tracks that have a language.
Speaking(streams, L) == DOMAIN streams = 1 .. L /\ \A p \in 1 .. L : "lang" \in DOMAIN streams[p]

\* The languages of the tracks, the first one overridden.
SpeakAs(tracks, streams, ord, known, lang, L) ==
  /\ DOMAIN tracks = 1 .. L
  /\ \A p \in 1 .. L : tracks[p].lang = IF known /\ ord[p] = 1 THEN lang ELSE streams[p].lang

\* The first track takes the override, wherever its place is.
LEMMA LanguagesAre ==
  ASSUME NEW streams, NEW source, NEW over, NEW lang, NEW L, NEW ord, NEW known \in BOOLEAN,
         Speaking(streams, L), PlacedAs(streams, source, ord, L), OverrideOf(over, known, lang)
  PROVE  SpeakAs(WithTrackLanguages("audio", streams, source, over), streams, ord, known, lang, L)
<1> DEFINE place == SourceOrdinals(streams, source)
           tracks == WithTrackLanguages("audio", streams, source, over)
           told(p) == [streams[p] EXCEPT !.lang = over[<<"audio", place[p]>>]]
<1>1. tracks = [p \in DOMAIN streams |-> IF <<"audio", place[p]>> \in DOMAIN over THEN told(p) ELSE streams[p]]
  BY Zenon DEF WithTrackLanguages
<1>2. \A p \in 1 .. L : told(p).lang = over[<<"audio", place[p]>>]
  BY Zenon DEF Speaking
<1>3. \A p \in 1 .. L : place[p] = ord[p]
  BY DEF PlacedAs
<1>4. DOMAIN streams = 1 .. L /\ \A p \in 1 .. L : "lang" \in DOMAIN streams[p]
  BY DEF Speaking
<1>5. /\ ~ known => DOMAIN over = {}
      /\ known => DOMAIN over = {<<"audio", 1>>} /\ over[<<"audio", 1>>] = lang
  BY DEF OverrideOf
<1> HIDE DEF told, place, tracks
<1>6. DOMAIN tracks = 1 .. L
  BY <1>1, <1>4
<1>7. ASSUME NEW p \in 1 .. L  PROVE tracks[p].lang = IF known /\ ord[p] = 1 THEN lang ELSE streams[p].lang
  <2>1. tracks[p] = IF <<"audio", place[p]>> \in DOMAIN over THEN told(p) ELSE streams[p]
    BY <1>1, <1>4
  <2>2. <<"audio", place[p]>> = <<"audio", 1>> <=> ord[p] = 1
    BY <1>3
  <2>3. <<"audio", place[p]>> \in DOMAIN over <=> known /\ ord[p] = 1
    BY <1>5, <2>2
  <2>4. CASE known /\ ord[p] = 1
    <3>1. tracks[p] = told(p)
      BY <2>1, <2>3, <2>4, Zenon
    <3>2. told(p).lang = over[<<"audio", 1>>]
      BY <1>2, <2>2, <2>4, Zenon
    <3> QED
      BY <1>5, <2>4, <3>1, <3>2, Zenon
  <2>5. CASE ~ (known /\ ord[p] = 1)
    BY <2>1, <2>3, <2>5, Zenon
  <2> QED
    BY <2>4, <2>5
<1> QED
  BY <1>6, <1>7, Zenon DEF SpeakAs, tracks

\* The tags an extra's run meets are such tags.
LEMMA TagsAre ==
  ASSUME NEW tag \in LangTags \cup {LangTag(b, 0) : b \in {"cy", "deu", "nob", "und", "zxx"}}
  PROVE  ExtraTag(tag)
<1> DEFINE bases == {"", "de", "pt", "ger", "gsw", "por", "nb", "deutsch", "cy", "deu", "nob", "und", "zxx"}
<1>1. ASSUME NEW c \in bases, NEW n  PROVE ExtraTag(LangTag(c, n))
  <2>1. LangTag(c, n).base = c
    BY DEF LangTag
  <2> QED
    BY <2>1 DEF ExtraTag
<1>2. /\ "" \in bases /\ "de" \in bases /\ "pt" \in bases /\ "ger" \in bases /\ "gsw" \in bases
      /\ "por" \in bases /\ "nb" \in bases /\ "deutsch" \in bases /\ "cy" \in bases /\ "deu" \in bases
      /\ "nob" \in bases /\ "und" \in bases /\ "zxx" \in bases
  OBVIOUS
<1> HIDE DEF bases
<1>3. CASE tag \in LangTags
  <2>1. \/ tag = LangTag("", 0) \/ tag = LangTag("de", 0) \/ tag = LangTag("pt", 1) \/ tag = LangTag("de", 2)
        \/ tag = LangTag("ger", 0) \/ tag = LangTag("gsw", 0) \/ tag = LangTag("por", 1) \/ tag = LangTag("nb", 0)
        \/ tag = LangTag("deutsch", 0)
    BY <1>3, Zenon DEF LangTags, NoTag
  <2> QED
    BY <1>1, <1>2, <2>1, Zenon
<1>4. CASE tag \in {LangTag(b, 0) : b \in {"cy", "deu", "nob", "und", "zxx"}}
  <2>1. PICK b \in {"cy", "deu", "nob", "und", "zxx"} : tag = LangTag(b, 0)
    BY <1>4, Zenon
  <2>2. b \in bases
    BY DEF bases
  <2> QED
    BY <1>1, <2>1, <2>2, Zenon
<1> QED
  BY <1>3, <1>4, Zenon

\* The job of an extra's languages.
LEMMA SpokenJob ==
  ASSUME NameExtra
  PROVE  job'.kind = "spoken" /\ SpokenTold(job')
<1>1. PICK source \in UpTo(2, ExtraTracks), dropped \in {{}, {"truehd"}}, readable \in BOOLEAN,
           tag \in LangTags \cup {LangTag(b, 0) : b \in {"cy", "deu", "nob", "und", "zxx"}} :
       LET kept == Carried(source, dropped)
           packaged == [p \in DOMAIN kept |-> source[kept[p]]]
           counted == ProbeOfSource(packaged, source, TRUE, readable)
       IN job' = [kind |-> "spoken", tag |-> tag, packaged |-> packaged,
                  first |-> [p \in DOMAIN kept |-> IF readable THEN kept[p] = 1 ELSE p = 1],
                  tracks |-> WithTrackLanguages("audio", packaged, counted, TrackOverrides(TrackLanguages(tag)))]
  BY Zenon DEF NameExtra
<1> DEFINE kept == Carried(source, dropped)
           packaged == [p \in DOMAIN kept |-> source[kept[p]]]
           counted == ProbeOfSource(packaged, source, TRUE, readable)
           over == TrackOverrides(TrackLanguages(tag))
           first == [p \in DOMAIN kept |-> IF readable THEN kept[p] = 1 ELSE p = 1]
           tracks == WithTrackLanguages("audio", packaged, counted, over)
           L == Len(kept)
           ord == IF readable THEN kept ELSE [p \in 1 .. Len(packaged) |-> p]
<1>2. job' = [kind |-> "spoken", tag |-> tag, packaged |-> packaged, first |-> first, tracks |-> tracks]
  BY <1>1, Zenon
<1>3. ExtraTag(tag)
  BY TagsAre
<1>4. PICK n \in 0 .. 2 : source \in [1 .. n -> ExtraTracks]
  BY DEF UpTo
<1>5. source \in Seq(ExtraTracks) /\ DOMAIN source = 1 .. Len(source)
  BY <1>4
<1> HIDE DEF kept
<1>6. L \in Nat /\ CarriedFrom(kept, packaged, source, L, Len(source))
  <2>1. kept = Carried(source, dropped)
    BY DEF kept
  <2> QED
    BY <1>5, <2>1, CarriedIs
<1> HIDE DEF packaged
<1>7. /\ DOMAIN packaged = 1 .. L /\ Len(packaged) = L /\ packaged \in Seq(Range(packaged)) /\ DOMAIN kept = 1 .. L
      /\ \A p \in 1 .. L : kept[p] \in 1 .. Len(source)
  BY <1>6 DEF CarriedFrom
<1>8. \A p \in 1 .. L : packaged[p] \in ExtraTracks
  BY <1>5, <1>7 DEF packaged
<1>9. Speaking(packaged, L)
  BY <1>7, <1>8 DEF ExtraTracks, Speaking
<1> HIDE DEF L
<1>10. PlacedAs(packaged, counted, ord, L)
  <2>1. CASE readable
    <3>1. counted = source /\ ord = kept
      BY <2>1 DEF ProbeOfSource
    <3>2. Len(source) \in Nat
      BY <1>5
    <3>3. PlacedAs(packaged, source, kept, L)
      BY <1>6, <3>2, Placed, Zenon
    <3> HIDE DEF ord, counted
    <3> QED
      BY <3>1, <3>3, Zenon
  <2>2. CASE ~ readable
    <3> DEFINE own == [p \in 1 .. Len(packaged) |-> p]
    <3>1. counted = packaged /\ ord = own
      BY <2>2 DEF ProbeOfSource
    <3>2. CarriedFrom(own, packaged, packaged, L, L)
      BY <1>7, CarriedAll
    <3> HIDE DEF own
    <3>3. PlacedAs(packaged, packaged, own, L)
      BY <1>6, <3>2, Placed, Zenon
    <3> HIDE DEF ord, counted
    <3> QED
      BY <3>1, <3>3, Zenon
  <2> QED
    BY <2>1, <2>2
<1>11. \A p \in 1 .. L : first[p] = (ord[p] = 1)
  <2>1. CASE readable
    BY <1>7, <2>1
  <2>2. CASE ~ readable
    BY <1>7, <2>2
  <2> QED
    BY <2>1, <2>2
<1> HIDE DEF ord, first, counted, over, L
<1>12. OverrideOf(over, KnownTag(tag), LangKey(tag))
  BY <1>3, OverridesAre, Zenon DEF over, OverrideOf
<1>13. SpeakAs(tracks, packaged, ord, KnownTag(tag), LangKey(tag), L)
  <2> DEFINE know == KnownTag(tag)
             key == LangKey(tag)
  <2>1. know \in BOOLEAN
    BY DEF KnownTag
  <2>2. OverrideOf(over, know, key)
    BY <1>12
  <2> HIDE DEF know, key
  <2>3. SpeakAs(WithTrackLanguages("audio", packaged, counted, over), packaged, ord, know, key, L)
    BY <1>9, <1>10, <2>1, <2>2, LanguagesAre
  <2> QED
    BY <2>3 DEF know, key, tracks
<1> HIDE DEF tracks
<1>14. \A p \in DOMAIN tracks :
         tracks[p].lang = IF KnownTag(tag) /\ first[p] THEN LangKey(tag) ELSE packaged[p].lang
  <2>1. DOMAIN tracks = 1 .. L
    BY <1>13, Zenon DEF SpeakAs
  <2>2. \A p \in 1 .. L : tracks[p].lang = IF KnownTag(tag) /\ ord[p] = 1 THEN LangKey(tag) ELSE packaged[p].lang
    BY <1>13, Zenon DEF SpeakAs
  <2> QED
    BY <1>11, <2>1, <2>2, Zenon
<1>15. /\ job'.kind = "spoken" /\ job'.tag = tag /\ job'.packaged = packaged /\ job'.first = first
       /\ job'.tracks = tracks
  BY <1>2
<1> QED
  BY <1>14, <1>15, Zenon DEF SpokenTold

\* Those after the handovers.
LEMMA LaterKinds ==
  /\ RecordStreams \/ RecordArrival \/ RecordRows => job'.kind = "source"
  /\ ReadNaming => job'.kind = "naming"
  /\ FlagRenditions => job'.kind = "flags"
  /\ WritePlaylist => job'.kind = "playlist"
<1>1. RecordStreams \/ RecordArrival \/ RecordRows => job'.kind = "source"
  <2>1. ASSUME NEW a, NEW p, NEW f, NEW t, NEW s, NEW c, NEW b, NEW r
        PROVE  Recorded(a, p, f, t, s, c, b, r).kind = "source"
    BY DEF Recorded
  <2>2. RecordStreams => job'.kind = "source"
    BY <2>1 DEF RecordStreams
  <2>3. RecordArrival => job'.kind = "source"
    BY <2>1 DEF RecordArrival
  <2>4. RecordRows => job'.kind = "source"
    BY <2>1 DEF RecordRows
  <2> QED
    BY <2>2, <2>3, <2>4
<1>2. ReadNaming => job'.kind = "naming"
  BY DEF ReadNaming
<1>3. FlagRenditions => job'.kind = "flags"
  BY DEF FlagRenditions
<1>4. WritePlaylist => job'.kind = "playlist"
  BY DEF WritePlaylist, Playlist
<1> QED
  BY <1>1, <1>2, <1>3, <1>4

\* No other job is of what a run leaves.
LEMMA OtherHandovers ==
  ASSUME Next, ~ TellSource, ~ NameExtra, ~ WriteManifest, ~ HandOver, ~ CopySidecars, ~ FindSidecars
  PROVE  job'.kind \notin {"facts", "spoken", "manifest", "handed", "sidecars"}
BY PlanKinds, ReadingKinds, WritingKinds, LaterKinds DEF Next, Reading, Writing

\* What is so of what a run leaves with the catalog, by the kind of the job.
CatalogTold(j) ==
  /\ j.kind = "facts" => FactsTold(j.handoff, j.probes, j.source)
  /\ j.kind = "spoken" => SpokenTold(j)
  /\ j.kind = "manifest" => ManifestTold(j)
  /\ j.kind = "handed" => HandedTold(j)

\* And of the files it handed over.
RunTold(j) ==
  /\ j.kind = "sidecars" => Traced(j.files, j.copies, j.pairs, j.handover)
  /\ CatalogTold(j)

\* That is what the property says.
LEMMA RunSays ==
  RunTold(job) => RunIsTold
<1> SUFFICES ASSUME CatalogTold(job)  PROVE CatalogIsTold
  BY Zenon DEF RunTold, RunIsTold, HandoverTraced
<1>1. job.kind = "facts" =>
       LET told == job.source
           by(k) == IF k \in DOMAIN job.handoff /\ job.handoff[k] > 0 THEN {job.handoff[k]}
                    ELSE {p[k] : p \in {q \in job.probes : /\ q[k] > 0
                                                           /\ k \in {"width", "height"} => q.width > 0 /\ q.height > 0}}
       IN /\ \A k \in SOURCE_KEYS : {told[j] : j \in {k} \cap DOMAIN told} = by(k)
          /\ \A k \in DOMAIN told \ SOURCE_KEYS : told[k] = job.handoff[k] /\ told[k] # -1
  BY Zenon DEF CatalogTold, FactsTold, SaidOf, ByEither, ByProbe
<1>2. job.kind = "spoken" =>
       LET known == job.tag.base \in ({"de", "pt", "nb"} \cup ThreeLetters) \ {"und"}
       IN \A p \in DOMAIN job.tracks :
            job.tracks[p].lang = IF known /\ job.first[p] THEN LangKey(job.tag) ELSE job.packaged[p].lang
  BY Zenon DEF CatalogTold, SpokenTold, KnownTag
<1>3. job.kind = "manifest" => ManifestTold(job)
  BY Zenon DEF CatalogTold
<1>4. job.kind = "handed" => HandedTold(job)
  BY Zenon DEF CatalogTold
<1> QED
  BY <1>1, <1>2, <1>3, <1>4, Zenon DEF CatalogIsTold, ManifestTold, HandedTold

\* Every step leaves it so.
LEMMA RunLeaves ==
  ASSUME Next
  PROVE  RunTold(job)'
<1>1. CASE TellSource
  <2>1. job'.kind = "facts" /\ FactsTold(job'.handoff, job'.probes, job'.source)
    BY <1>1, FactsJob
  <2> QED
    BY <2>1 DEF RunTold, CatalogTold
<1>2. CASE NameExtra
  <2>1. job'.kind = "spoken" /\ SpokenTold(job')
    BY <1>2, SpokenJob
  <2> QED
    BY <2>1 DEF RunTold, CatalogTold
<1>3. CASE WriteManifest
  <2>1. job'.kind = "manifest" /\ ManifestTold(job')
    BY <1>3, ManifestJob
  <2> QED
    BY <2>1 DEF RunTold, CatalogTold
<1>4. CASE HandOver
  <2>1. job'.kind = "handed" /\ HandedTold(job')
    BY <1>4, HandedJob
  <2> QED
    BY <2>1 DEF RunTold, CatalogTold
<1>5. CASE CopySidecars \/ FindSidecars
  <2>1. job'.kind = "sidecars" /\ SidecarsOf(job')
    BY <1>5, CopyJobs, FindJobs
  <2>2. Traced(job'.files, job'.copies, job'.pairs, job'.handover)
    BY <2>1, SidecarsTraced
  <2> QED
    BY <2>1, <2>2 DEF RunTold, CatalogTold
<1>6. CASE job'.kind \notin {"facts", "spoken", "manifest", "handed", "sidecars"}
  BY <1>6 DEF RunTold, CatalogTold
<1> QED
  BY <1>1, <1>2, <1>3, <1>4, <1>5, <1>6, OtherHandovers

\* THEOREM: the handover of a run names the copy each subtitle rendition comes
\* from, and answers for each file it may be certain of; and what the catalog
\* keeps of the run's work - the facts of the source, the language of an
\* extra, the keys of a manifest, where an original is - is so (_copies_of,
\* _handover, _source_block, extras._track_languages, build_package,
\* version_payload, _original_in).
THEOREM RunAlwaysTold == Spec => []RunIsTold
<1>1. Init => RunTold(job)
  BY DEF Init, RunTold, CatalogTold
<1>2. RunTold(job) /\ [Next]_job => RunTold(job)'
  <2> SUFFICES ASSUME RunTold(job), [Next]_job  PROVE RunTold(job)'
    OBVIOUS
  <2>1. CASE UNCHANGED job
    BY <2>1, Zenon
  <2>2. CASE Next
    BY <2>2, RunLeaves
  <2> QED
    BY <2>1, <2>2
<1>3. RunTold(job) => RunIsTold
  BY RunSays
<1> QED
  BY <1>1, <1>2, <1>3, PTL DEF Spec

(***************************************************************************)
(* The audio of a package.                                                 *)
(***************************************************************************)

\* Those of S that a relation puts before i.
Below(S, R, i) == {j \in S : <<j, i>> \in R}

\* A relation that puts any two of S in one order.
Orders(S, R) ==
  /\ \A i \in S : <<i, i>> \notin R
  /\ \A i, j \in S : i # j => (<<i, j>> \in R \/ <<j, i>> \in R)
  /\ \A i, j, k \in S : <<i, j>> \in R /\ <<j, k>> \in R => <<i, k>> \in R

\* Each of S has a place of its own in its order, counted from 0, and each
\* place is one's.
LEMMA PlacesInOrder ==
  ASSUME NEW S, IsFiniteSet(S), NEW R, Orders(S, R)
  PROVE  /\ \A i \in S : Cardinality(Below(S, R, i)) \in 0 .. (Cardinality(S) - 1)
         /\ \A i, j \in S : Cardinality(Below(S, R, i)) = Cardinality(Below(S, R, j)) => i = j
         /\ \A k \in 0 .. (Cardinality(S) - 1) : \E i \in S : Cardinality(Below(S, R, i)) = k
         /\ \A i, j \in S : <<i, j>> \in R => Cardinality(Below(S, R, i)) < Cardinality(Below(S, R, j))
<1> DEFINE n == Cardinality(S)
           rank == [i \in S |-> Cardinality(Below(S, R, i))]
<1>1. n \in Nat
  BY FS_CardinalityType
<1>2. \A i \in S : Below(S, R, i) \in SUBSET S /\ i \notin Below(S, R, i)
  BY DEF Below, Orders
<1>3. ASSUME NEW i \in S  PROVE rank[i] \in 0 .. (n - 1)
  <2> DEFINE B == Below(S, R, i)
  <2>1. B \in SUBSET S /\ B # S
    BY <1>2
  <2> HIDE DEF B
  <2>2. IsFiniteSet(B) /\ Cardinality(B) <= n /\ n # Cardinality(B)
    BY <2>1, FS_Subset, Zenon
  <2>3. Cardinality(B) \in Nat
    BY <2>2, FS_CardinalityType
  <2>4. rank[i] = Cardinality(B)
    BY DEF B
  <2> HIDE DEF rank, n
  <2> QED
    BY <1>1, <2>2, <2>3, <2>4
<1>4. ASSUME NEW i \in S, NEW j \in S, <<i, j>> \in R  PROVE rank[i] < rank[j]
  <2> DEFINE A == Below(S, R, i)
             B == Below(S, R, j)
  <2>1. A \in SUBSET B /\ i \in B /\ i \notin A
    BY <1>4 DEF Below, Orders
  <2>2. IsFiniteSet(B)
    BY <1>2, FS_Subset, Zenon
  <2>3. rank[i] = Cardinality(A) /\ rank[j] = Cardinality(B)
    OBVIOUS
  <2> HIDE DEF A, B, rank
  <2>4. IsFiniteSet(A) /\ Cardinality(A) <= Cardinality(B) /\ Cardinality(B) # Cardinality(A)
    BY <2>1, <2>2, FS_Subset, Zenon
  <2>5. Cardinality(A) \in Nat /\ Cardinality(B) \in Nat
    BY <2>2, <2>4, FS_CardinalityType
  <2> QED
    BY <2>3, <2>4, <2>5
<1>5. \A i \in S : rank[i] = Cardinality(Below(S, R, i))
  OBVIOUS
<1>6. rank \in [S -> 0 .. (n - 1)]
  <2>1. rank = [i \in S |-> rank[i]]
    OBVIOUS
  <2> HIDE DEF rank
  <2> QED
    BY <1>3, <2>1
<1> HIDE DEF rank, n
<1>7. ASSUME NEW i \in S, NEW j \in S, rank[i] = rank[j]  PROVE i = j
  <2>1. rank[i] \in Int /\ ~ (rank[i] < rank[j]) /\ ~ (rank[j] < rank[i])
    BY <1>1, <1>3, <1>7
  <2>2. <<i, j>> \notin R /\ <<j, i>> \notin R
    BY <1>4, <2>1
  <2> QED
    BY <2>2 DEF Orders
<1>8. rank \in Injection(S, 0 .. (n - 1))
  BY <1>6, <1>7 DEF Injection, IsInjective
<1>9. IsFiniteSet(0 .. (n - 1)) /\ Cardinality(0 .. (n - 1)) = n
  BY <1>1, FS_Interval
<1>10. rank \in Surjection(S, 0 .. (n - 1))
  BY <1>8, <1>9, FS_Injection DEF n
<1>11. \A k \in 0 .. (n - 1) : \E i \in S : rank[i] = k
  BY <1>10 DEF Surjection
<1>12. \A i, j \in S : <<i, j>> \in R => Cardinality(Below(S, R, i)) < Cardinality(Below(S, R, j))
  BY <1>4, <1>5
<1> QED
  BY <1>3, <1>5, <1>7, <1>11, <1>12 DEF n

\* As many places are listed as there are.
LEMMA InOrderSize ==
  ASSUME NEW N \in Nat, NEW places \in SUBSET (1 .. N)
  PROVE  IsFiniteSet(places) /\ Len(InOrder(places, N)) = Cardinality(places)
<1> DEFINE o == InOrder(places, N)
<1>1. /\ o \in Seq(places) /\ \A k \in places : \E i \in 1 .. Len(o) : o[i] = k
      /\ \A i, j \in 1 .. Len(o) : i < j => o[i] < o[j]
  BY InOrderIs
<1> HIDE DEF o
<1>2. Len(o) \in Nat /\ o \in [1 .. Len(o) -> places]
  BY <1>1
<1>3. \A i, j \in 1 .. Len(o) : o[i] = o[j] => i = j
  <2>1. \A i \in 1 .. Len(o) : o[i] \in 1 .. N
    BY <1>2, Zenon
  <2> QED
    BY <1>1, <1>2, <2>1
<1>4. o \in Bijection(1 .. Len(o), places)
  BY <1>1, <1>2, <1>3 DEF Bijection, Injection, Surjection, IsInjective
<1>5. IsFiniteSet(1 .. Len(o)) /\ Cardinality(1 .. Len(o)) = Len(o)
  BY <1>2, FS_Interval
<1>6. IsFiniteSet(places) /\ Cardinality(places) = Cardinality(1 .. Len(o))
  BY <1>4, <1>5, FS_Bijection DEF ExistsBijection
<1> QED
  BY <1>5, <1>6 DEF o

\* A language's places in a group, those of them that go before others, and
\* the order of the places themselves.
PlacesOf(langs, l) == {i \in DOMAIN langs : langs[i] = l}
GoesFirst(mains, S) == {p \in S \X S : \/ mains[p[1]] /\ ~ mains[p[2]]
                                       \/ mains[p[1]] = mains[p[2]] /\ p[1] < p[2]}
Ascending(S) == {p \in S \X S : p[1] < p[2]}

\* Both are orders.
LEMMA FirstsOrder ==
  ASSUME NEW S \in SUBSET Nat, NEW mains, \A i \in S : mains[i] \in BOOLEAN
  PROVE  Orders(S, GoesFirst(mains, S)) /\ Orders(S, Ascending(S))
<1> DEFINE R == GoesFirst(mains, S)
           A == Ascending(S)
           flag == [i \in S |-> IF mains[i] THEN 1 ELSE 0]
<1>1. \A i, j \in S : <<i, j>> \in A <=> i < j
  BY DEF Ascending
<1>2. ASSUME NEW i \in S, NEW j \in S
      PROVE  <<i, j>> \in R <=> (mains[i] /\ ~ mains[j]) \/ (mains[i] = mains[j] /\ i < j)
  BY DEF GoesFirst
<1>3. \A i \in S : flag[i] \in {0, 1} /\ (mains[i] <=> flag[i] = 1)
  OBVIOUS
<1>4. ASSUME NEW i \in S, NEW j \in S
      PROVE  <<i, j>> \in R <=> flag[i] > flag[j] \/ (flag[i] = flag[j] /\ i < j)
  <2>1. (mains[i] = mains[j]) <=> flag[i] = flag[j]
    BY <1>3
  <2>2. (mains[i] /\ ~ mains[j]) <=> flag[i] > flag[j]
    BY <1>3
  <2> QED
    BY <1>2, <2>1, <2>2, Zenon
<1>5. \A i \in S : i \in Nat
  OBVIOUS
<1> HIDE DEF R, A, flag
<1>6. Orders(S, A)
  BY <1>1, <1>5 DEF Orders
<1>7. Orders(S, R)
  BY <1>3, <1>4, <1>5 DEF Orders
<1> QED
  BY <1>6, <1>7 DEF R, A

\* What a group's order is: each of its own, and each somewhere, the main ones
\* of a language first, as they were.
Shuffled(o, langs, mains, N) ==
  /\ DOMAIN o = 1 .. N
  /\ \A p \in 1 .. N : o[p] \in 1 .. N /\ langs[o[p]] = langs[p]
  /\ \A p, q \in 1 .. N : o[p] = o[q] => p = q
  /\ \A i \in 1 .. N : \E p \in 1 .. N : o[p] = i
  /\ \A p, q \in 1 .. N : p < q /\ langs[p] = langs[q] =>
       /\ mains[o[q]] => mains[o[p]]
       /\ mains[o[p]] = mains[o[q]] => o[p] < o[q]

\* A group's order moves each of its renditions, and loses none.
LEMMA MainFirstIs ==
  ASSUME NEW N \in Nat, NEW langs, DOMAIN langs = 1 .. N, NEW mains, \A i \in 1 .. N : mains[i] \in BOOLEAN
  PROVE  Shuffled(MainFirst(langs, mains), langs, mains, N)
<1> DEFINE P(p) == PlacesOf(langs, langs[p])
           at(p, i) == Cardinality(Below(P(p), GoesFirst(mains, P(p)), i))
           of(p) == Cardinality(Below(P(p), Ascending(P(p)), p))
           taken(p) == CHOOSE i \in P(p) : at(p, i) = of(p)
           o == MainFirst(langs, mains)
<1>1. o = [p \in 1 .. N |-> taken(p)]
  <2>1. ASSUME NEW p \in 1 .. N, NEW i \in P(p)
        PROVE  /\ at(p, i) = Cardinality({j \in {k \in DOMAIN langs : langs[k] = langs[p]} :
                                 \/ mains[j] /\ ~ mains[i]
                                 \/ mains[j] = mains[i] /\ j < i})
               /\ of(p) = Cardinality({q \in {k \in DOMAIN langs : langs[k] = langs[p]} : q < p})
    <3>1. p \in P(p)
      BY DEF PlacesOf
    <3>2. Below(P(p), GoesFirst(mains, P(p)), i) =
            {j \in P(p) : \/ mains[j] /\ ~ mains[i]
                          \/ mains[j] = mains[i] /\ j < i}
      <4> HIDE DEF P
      <4> QED
        BY <2>1 DEF Below, GoesFirst
    <3>3. Below(P(p), Ascending(P(p)), p) = {q \in P(p) : q < p}
      <4> HIDE DEF P
      <4> QED
        BY <3>1 DEF Below, Ascending
    <3>4. P(p) = {k \in DOMAIN langs : langs[k] = langs[p]}
      BY DEF PlacesOf
    <3> HIDE DEF P
    <3> QED
      BY <3>2, <3>3, <3>4
  <2>2. ASSUME NEW p \in 1 .. N
        PROVE  taken(p) = CHOOSE i \in {k \in DOMAIN langs : langs[k] = langs[p]} :
                            Cardinality({j \in {k \in DOMAIN langs : langs[k] = langs[p]} :
                                 \/ mains[j] /\ ~ mains[i]
                                 \/ mains[j] = mains[i] /\ j < i})
                            = Cardinality({q \in {k \in DOMAIN langs : langs[k] = langs[p]} : q < p})
    <3>1. P(p) = {k \in DOMAIN langs : langs[k] = langs[p]}
      BY DEF PlacesOf
    <3> HIDE DEF P, at, of
    <3> QED
      BY <2>1, <3>1
  <2> HIDE DEF taken
  <2>3. o = [p \in DOMAIN langs |-> taken(p)]
    BY <2>2 DEF MainFirst
  <2> QED
    BY <2>3
<1>2. ASSUME NEW p \in 1 .. N
      PROVE  /\ P(p) \in SUBSET (1 .. N) /\ p \in P(p) /\ IsFiniteSet(P(p))
             /\ Orders(P(p), GoesFirst(mains, P(p))) /\ Orders(P(p), Ascending(P(p)))
  <2>1. P(p) \in SUBSET (1 .. N) /\ p \in P(p)
    BY DEF PlacesOf
  <2> HIDE DEF P
  <2>2. IsFiniteSet(1 .. N) /\ P(p) \in SUBSET Nat /\ \A i \in P(p) : mains[i] \in BOOLEAN
    <3>1. IsFiniteSet(1 .. N)
      BY FS_Interval
    <3>2. \A i \in P(p) : i \in 1 .. N /\ i \in Nat
      BY <2>1
    <3>3. \A i \in P(p) : mains[i] \in BOOLEAN
      BY <3>2, Zenon
    <3> QED
      BY <3>1, <3>2, <3>3, Zenon
  <2>3. IsFiniteSet(P(p))
    BY <2>1, <2>2, FS_Subset
  <2>4. Orders(P(p), GoesFirst(mains, P(p))) /\ Orders(P(p), Ascending(P(p)))
    BY <2>2, FirstsOrder
  <2> QED
    BY <2>1, <2>3, <2>4
<1>3. \A p, q \in 1 .. N : q \in P(p) <=> langs[q] = langs[p]
  BY DEF PlacesOf
<1>4. \A p, q \in 1 .. N : langs[p] = langs[q] => P(p) = P(q)
  OBVIOUS
<1> DEFINE n(p) == Cardinality(P(p))
<1> HIDE DEF P
<1>5. ASSUME NEW p \in 1 .. N
      PROVE  /\ \A i \in P(p) : at(p, i) \in 0 .. (n(p) - 1)
             /\ \A i, j \in P(p) : at(p, i) = at(p, j) => i = j
             /\ \A k \in 0 .. (n(p) - 1) : \E i \in P(p) : at(p, i) = k
             /\ \A i, j \in P(p) : <<i, j>> \in GoesFirst(mains, P(p)) => at(p, i) < at(p, j)
  BY <1>2, PlacesInOrder
<1> DEFINE rank(p, i) == Cardinality(Below(P(p), Ascending(P(p)), i))
<1>6. ASSUME NEW p \in 1 .. N
      PROVE  /\ \A i \in P(p) : rank(p, i) \in 0 .. (n(p) - 1)
             /\ \A i, j \in P(p) : rank(p, i) = rank(p, j) => i = j
             /\ \A k \in 0 .. (n(p) - 1) : \E i \in P(p) : rank(p, i) = k
             /\ \A i, j \in P(p) : <<i, j>> \in Ascending(P(p)) => rank(p, i) < rank(p, j)
  BY <1>2, PlacesInOrder
<1>7. \A p, q \in 1 .. N : langs[p] = langs[q] => \A i : at(p, i) = at(q, i) /\ rank(p, i) = rank(q, i)
  BY <1>4
<1>8. \A p \in 1 .. N : of(p) = rank(p, p)
  OBVIOUS
<1> HIDE DEF at, of, rank, n
<1>9. ASSUME NEW p \in 1 .. N
      PROVE  o[p] \in P(p) /\ at(p, o[p]) = of(p)
  <2>1. \E i \in P(p) : at(p, i) = of(p)
    BY <1>2, <1>5, <1>6, <1>8
  <2>2. o[p] = CHOOSE i \in P(p) : at(p, i) = of(p)
    BY <1>1
  <2> HIDE DEF o
  <2> QED
    BY <2>1, <2>2
<1>10. DOMAIN o = 1 .. N
  BY <1>1
<1> HIDE DEF o
<1>11. \A p \in 1 .. N : o[p] \in 1 .. N /\ langs[o[p]] = langs[p]
  BY <1>2, <1>3, <1>9
<1>12. ASSUME NEW p \in 1 .. N, NEW q \in 1 .. N, o[p] = o[q]  PROVE p = q
  <2>1. langs[p] = langs[q]
    BY <1>11, <1>12, Zenon
  <2>2. of(p) = of(q)
    BY <1>7, <1>9, <1>12, <2>1, Zenon
  <2>3. rank(p, p) = rank(p, q) /\ p \in P(p) /\ q \in P(p)
    BY <1>2, <1>3, <1>7, <1>8, <2>1, <2>2, Zenon
  <2> QED
    BY <1>6, <2>3
<1>13. ASSUME NEW i \in 1 .. N  PROVE \E p \in 1 .. N : o[p] = i
  <2>1. i \in P(i) /\ at(i, i) \in 0 .. (n(i) - 1)
    BY <1>2, <1>5
  <2>2. PICK p \in P(i) : rank(i, p) = at(i, i)
    BY <1>6, <2>1
  <2>3. p \in 1 .. N /\ langs[p] = langs[i]
    BY <1>2, <1>3, <2>2
  <2>4. of(p) = at(p, i) /\ i \in P(p)
    BY <1>3, <1>7, <1>8, <2>2, <2>3, Zenon
  <2>5. o[p] = i
    BY <1>5, <1>9, <2>3, <2>4
  <2> QED
    BY <2>3, <2>5
<1>14. ASSUME NEW p \in 1 .. N, NEW q \in 1 .. N, p < q, langs[p] = langs[q]
       PROVE  /\ mains[o[q]] => mains[o[p]]
              /\ mains[o[p]] = mains[o[q]] => o[p] < o[q]
  <2>1. p \in P(p) /\ q \in P(p) /\ o[p] \in P(p) /\ o[q] \in P(p)
    BY <1>2, <1>3, <1>9, <1>14, <1>11
  <2>2. rank(p, p) < rank(p, q)
    <3>1. <<p, q>> \in Ascending(P(p))
      BY <1>14, <2>1 DEF Ascending
    <3> QED
      BY <1>6, <2>1, <3>1
  <2>3. at(p, o[p]) = rank(p, p) /\ at(p, o[q]) = rank(p, q)
    BY <1>7, <1>8, <1>9, <1>14, Zenon
  <2>4. rank(p, p) \in Int /\ rank(p, q) \in Int
    <3>1. rank(p, p) \in 0 .. (n(p) - 1) /\ rank(p, q) \in 0 .. (n(p) - 1)
      BY <1>6, <2>1, Zenon
    <3> QED
      BY <3>1
  <2>5. <<o[q], o[p]>> \notin GoesFirst(mains, P(p))
    <3>1. <<o[q], o[p]>> \in GoesFirst(mains, P(p)) => at(p, o[q]) < at(p, o[p])
      BY <1>5, <2>1, Zenon
    <3> QED
      BY <2>2, <2>3, <2>4, <3>1
  <2>6. o[p] # o[q]
    BY <1>12, <1>14
  <2>7. <<o[p], o[q]>> \in GoesFirst(mains, P(p))
    BY <1>2, <2>1, <2>5, <2>6, Zenon DEF Orders
  <2>8. \/ mains[o[p]] /\ ~ mains[o[q]]
        \/ mains[o[p]] = mains[o[q]] /\ o[p] < o[q]
    BY <2>7 DEF GoesFirst
  <2> QED
    BY <2>8, Zenon
<1> QED
  BY <1>10, <1>11, <1>12, <1>13, <1>14, Zenon DEF Shuffled, o

\* A list of N things.
Listing(f, N) == f = [i \in 1 .. N |-> f[i]]

\* Two lists put together: the first's, then the second's.
Joins(h, f, g, N, M) ==
  /\ Listing(h, N + M) /\ DOMAIN h = 1 .. (N + M) /\ Len(h) = N + M
  /\ \A i \in 1 .. N : h[i] = f[i]
  /\ \A k \in 1 .. M : h[N + k] = g[k]

\* Each is where it was, or as far behind the first list as it was.
LEMMA JoinedAt ==
  ASSUME NEW N \in Nat, NEW M \in Nat, NEW f, Listing(f, N), NEW g, Listing(g, M)
  PROVE  Joins(f \o g, f, g, N, M)
<1> DEFINE B == {f[i] : i \in 1 .. N} \cup {g[k] : k \in 1 .. M}
           h == f \o g
<1>1. f \in Seq(B) /\ Len(f) = N
  <2>1. f \in [1 .. N -> B]
    BY DEF Listing
  <2> HIDE DEF B
  <2> QED
    BY <2>1
<1>2. g \in Seq(B) /\ Len(g) = M
  <2>1. g \in [1 .. M -> B]
    BY DEF Listing
  <2> HIDE DEF B
  <2> QED
    BY <2>1
<1> HIDE DEF B
<1>3. /\ h \in Seq(B) /\ Len(h) = N + M
      /\ \A i \in 1 .. (N + M) : h[i] = IF i <= N THEN f[i] ELSE g[i - N]
  BY <1>1, <1>2, ConcatProperties
<1> HIDE DEF h
<1>4. DOMAIN h = 1 .. (N + M) /\ Listing(h, N + M)
  BY <1>3 DEF Listing
<1>5. \A i \in 1 .. N : h[i] = f[i]
  BY <1>3
<1>6. \A k \in 1 .. M : h[N + k] = g[k]
  <2> SUFFICES ASSUME NEW k \in 1 .. M  PROVE h[N + k] = g[k]
    OBVIOUS
  <2>1. N + k \in 1 .. (N + M) /\ ~ (N + k <= N) /\ N + k - N = k
    OBVIOUS
  <2> QED
    BY <1>3, <2>1
<1> QED
  BY <1>3, <1>4, <1>5, <1>6 DEF h, Joins

\* The renditions: every track in stereo, then the companions.
EntriesTold(e, tracks, companions, N, M, marks, visible, d, sd) ==
  /\ DOMAIN e = 1 .. (N + M) /\ Len(e) = N + M
  /\ \A i \in 1 .. N :
       e[i] = AudioEntry("audio", i, i \in DOMAIN marks /\ marks[i] = "lifted", i = d, i \in visible, tracks[i])
  /\ \A k \in 1 .. M :
       e[N + k] = AudioEntry("audio-surround", companions[k], FALSE, companions[k] = sd,
                             companions[k] \in visible, tracks[companions[k]])

\* They are listed so.
LEMMA EntriesOf ==
  ASSUME NEW N \in Nat, NEW M \in Nat, NEW tracks, DOMAIN tracks = 1 .. N,
         NEW companions, DOMAIN companions = 1 .. M, NEW marks, NEW visible, NEW d, NEW sd
  PROVE  EntriesTold(AudioEntries(tracks, companions, marks, visible, d, sd),
                     tracks, companions, N, M, marks, visible, d, sd)
<1> DEFINE stereo(i) == AudioEntry("audio", i, i \in DOMAIN marks /\ marks[i] = "lifted", i = d, i \in visible, tracks[i])
           surround(k) == AudioEntry("audio-surround", companions[k], FALSE, companions[k] = sd,
                                     companions[k] \in visible, tracks[companions[k]])
           f == [i \in 1 .. N |-> stereo(i)]
           g == [k \in 1 .. M |-> surround(k)]
           e == AudioEntries(tracks, companions, marks, visible, d, sd)
<1>1. e = f \o g
  BY Zenon DEF AudioEntries
<1> HIDE DEF stereo, surround, e
<1>2. /\ Listing(f, N) /\ Listing(g, M)
      /\ \A i \in 1 .. N : f[i] = stereo(i)
      /\ \A k \in 1 .. M : g[k] = surround(k)
  BY DEF Listing
<1> HIDE DEF f, g
<1>3. /\ DOMAIN e = 1 .. (N + M) /\ Len(e) = N + M
      /\ \A i \in 1 .. N : e[i] = stereo(i)
      /\ \A k \in 1 .. M : e[N + k] = surround(k)
  <2>1. Joins(e, f, g, N, M)
    BY <1>1, <1>2, JoinedAt, Zenon
  <2> QED
    BY <1>2, <2>1, Zenon DEF Joins
<1> QED
  BY <1>3, Zenon DEF EntriesTold, e, stereo, surround

\* The streams of the MP4: the picture, every track, the companions.
StreamsAre(primary, companions, N, M) ==
  /\ \A i \in 1 .. N : primary[i + 1] = Stream(i, "stereo")
  /\ \A k \in 1 .. M : primary[N + k + 1] = Stream(companions[k], "surround")

\* They are in it so.
LEMMA StreamsOf ==
  ASSUME NEW N \in Nat, NEW M \in Nat, NEW tracks, DOMAIN tracks = 1 .. N,
         NEW companions, DOMAIN companions = 1 .. M
  PROVE  StreamsAre(PrimaryStreams(tracks, companions), companions, N, M)
<1> DEFINE v == <<Stream(0, "video")>>
           f == [i \in 1 .. N |-> Stream(i, "stereo")]
           g == [k \in 1 .. M |-> Stream(companions[k], "surround")]
           primary == PrimaryStreams(tracks, companions)
<1>1. primary = v \o f \o g
  BY Zenon DEF PrimaryStreams
<1>2. /\ Listing(f, N) /\ Listing(g, M) /\ Listing(v, 1)
      /\ \A i \in 1 .. N : f[i] = Stream(i, "stereo")
      /\ \A k \in 1 .. M : g[k] = Stream(companions[k], "surround")
  BY DEF Listing
<1> HIDE DEF f, g, v, primary
<1> DEFINE h == v \o f
<1>3. Listing(h, 1 + N) /\ \A i \in 1 .. N : h[1 + i] = f[i]
  <2>1. 1 \in Nat
    OBVIOUS
  <2>2. Joins(h, v, f, 1, N)
    BY <1>2, <2>1, JoinedAt, Zenon
  <2> QED
    BY <2>2, Zenon DEF Joins
<1> HIDE DEF h
<1>4. /\ \A j \in 1 .. (1 + N) : primary[j] = h[j]
      /\ \A k \in 1 .. M : primary[1 + N + k] = g[k]
  <2>1. 1 + N \in Nat /\ primary = h \o g
    BY <1>1 DEF h
  <2> DEFINE K == 1 + N
  <2>2. K \in Nat /\ Listing(h, K)
    BY <1>3, <2>1
  <2> HIDE DEF K
  <2>3. Joins(primary, h, g, K, M)
    BY <1>2, <2>1, <2>2, JoinedAt, Zenon
  <2> QED
    BY <2>3, Zenon DEF K, Joins
<1>5. \A i \in 1 .. N : i + 1 \in 1 .. (1 + N) /\ i + 1 = 1 + i
  OBVIOUS
<1>6. \A i \in 1 .. N : primary[i + 1] = Stream(i, "stereo")
  BY <1>2, <1>3, <1>4, <1>5, Zenon
<1>7. \A k \in 1 .. M : 1 + N + k = N + k + 1
  OBVIOUS
<1>8. \A k \in 1 .. M : primary[N + k + 1] = Stream(companions[k], "surround")
  BY <1>2, <1>4, <1>7, Zenon
<1> QED
  BY <1>6, <1>8, Zenon DEF StreamsAre, primary

\* The renditions of a group.
GroupOf(e, group) == {n \in DOMAIN e : e[n].group = group}

\* A group's lines: each of its renditions on one, as it is.
LinesTold(lines, e, G) ==
  /\ \A p \in DOMAIN lines : /\ lines[p].n \in G
                             /\ lines[p].default = e[lines[p].n].default
                             /\ lines[p].default => lines[p].autoselect
  /\ \A n \in G : \E p \in DOMAIN lines : lines[p].n = n
  /\ \A p, q \in DOMAIN lines : lines[p].n = lines[q].n => p = q

\* A group's lines are so, whatever the order of its languages.
LEMMA LinesAre ==
  ASSUME NEW L \in Nat, NEW e, DOMAIN e = 1 .. L, Len(e) = L, NEW group
  PROVE  LinesTold(MediaLines(e, group), e, GroupOf(e, group))
<1> DEFINE G == GroupOf(e, group)
           ns == InGroup(e, group)
           metas == [k \in DOMAIN ns |-> e[ns[k]]]
           langs == [k \in DOMAIN ns |-> metas[k].lang]
           mains == [k \in DOMAIN ns |-> metas[k].purpose = "main"]
           order == MainFirst(langs, mains)
           auto == AudioAutoselect(metas)
           lines == MediaLines(e, group)
           K == Len(ns)
<1>1. lines = [p \in DOMAIN ns |-> [n |-> ns[order[p]], default |-> metas[order[p]].default,
                                    autoselect |-> auto[order[p]] \/ metas[order[p]].default]]
  BY Zenon DEF MediaLines
<1>2. /\ ns \in Seq(G) /\ \A n \in G : \E i \in 1 .. K : ns[i] = n
      /\ \A i, j \in 1 .. K : i < j => ns[i] < ns[j]
  <2>1. ns = InOrder(G, L)
    BY Zenon DEF InGroup, GroupOf
  <2>2. G \in SUBSET (1 .. L)
    BY DEF GroupOf
  <2> HIDE DEF G, ns
  <2> QED
    BY <2>1, <2>2, InOrderIs
<1>3. G \subseteq Nat
  BY DEF GroupOf
<1> HIDE DEF G, ns
<1>4. K \in Nat /\ DOMAIN ns = 1 .. K /\ \A i \in 1 .. K : ns[i] \in G
  BY <1>2
<1> HIDE DEF K
<1>5. \A i, j \in 1 .. K : ns[i] = ns[j] => i = j
  <2>1. \A i \in 1 .. K : ns[i] \in Nat
    BY <1>3, <1>4
  <2>2. \A i, j \in 1 .. K : i < j \/ j < i \/ i = j
    BY <1>4
  <2>3. \A i, j \in 1 .. K : i < j => ns[i] # ns[j]
    BY <1>2, <2>1 DEF K
  <2> QED
    BY <2>2, <2>3, Zenon
<1>6. /\ DOMAIN langs = 1 .. K /\ \A i \in 1 .. K : mains[i] \in BOOLEAN
      /\ \A i \in 1 .. K : metas[i] = e[ns[i]]
  BY <1>4
<1> HIDE DEF metas, mains, langs, auto
<1>7. Shuffled(order, langs, mains, K)
  BY <1>4, <1>6, MainFirstIs, Zenon
<1> HIDE DEF order
<1>8. /\ \A p \in 1 .. K : order[p] \in 1 .. K
      /\ \A p, q \in 1 .. K : order[p] = order[q] => p = q
      /\ \A i \in 1 .. K : \E p \in 1 .. K : order[p] = i
  BY <1>7, Zenon DEF Shuffled
<1>9. DOMAIN lines = 1 .. K
  BY <1>1, <1>4
<1>10. ASSUME NEW p \in 1 .. K
       PROVE  /\ lines[p].n = ns[order[p]] /\ lines[p].default = e[ns[order[p]]].default
              /\ lines[p].default => lines[p].autoselect
  <2>1. lines[p] = [n |-> ns[order[p]], default |-> metas[order[p]].default,
                    autoselect |-> auto[order[p]] \/ metas[order[p]].default]
    BY <1>1, <1>4, Zenon
  <2>2. lines[p].n = ns[order[p]]
    BY <2>1
  <2>3. lines[p].default = metas[order[p]].default
    BY <2>1
  <2>4. lines[p].autoselect = (auto[order[p]] \/ metas[order[p]].default)
    BY <2>1
  <2> QED
    BY <1>6, <1>8, <2>2, <2>3, <2>4, Zenon
<1>11. \A n \in G : \E p \in 1 .. K : lines[p].n = n
  <2> SUFFICES ASSUME NEW n \in G  PROVE \E p \in 1 .. K : lines[p].n = n
    OBVIOUS
  <2>1. PICK i \in 1 .. K : ns[i] = n
    BY <1>2 DEF K
  <2>2. PICK p \in 1 .. K : order[p] = i
    BY <1>8
  <2> QED
    BY <1>10, <2>1, <2>2
<1>12. ASSUME NEW p \in 1 .. K, NEW q \in 1 .. K, lines[p].n = lines[q].n  PROVE p = q
  <2>1. ns[order[p]] = ns[order[q]]
    BY <1>10, <1>12, Zenon
  <2>2. order[p] \in 1 .. K /\ order[q] \in 1 .. K
    BY <1>8, Zenon
  <2>3. order[p] = order[q]
    BY <1>5, <2>1, <2>2, Zenon
  <2> QED
    BY <1>8, <2>3, Zenon
<1>13. \A p \in 1 .. K : lines[p].n \in G /\ lines[p].default = e[lines[p].n].default
  BY <1>4, <1>8, <1>10, Zenon
<1> HIDE DEF lines
<1>14. LinesTold(lines, e, G)
  BY <1>9, <1>10, <1>11, <1>12, <1>13, Zenon DEF LinesTold
<1> QED
  BY <1>14 DEF lines, G

\* A group shows its one default, and it is offered if any of the group is.
Shows(lines, e, G) ==
  LET shows == {p \in DOMAIN lines : lines[p].default}
  IN /\ {lines[p].n : p \in DOMAIN lines} = G
     /\ Cardinality(shows) = 1 /\ \A p \in shows : lines[p].autoselect
     /\ \A p \in shows : ~ e[lines[p].n].visible =>
          \A n \in {lines[q].n : q \in DOMAIN lines} : ~ e[n].visible

\* It is so where one of the group, and no other, is the default.
LEMMA OneShown ==
  ASSUME NEW lines, NEW e, NEW G, LinesTold(lines, e, G), NEW n0 \in G,
         \A n \in G : e[n].default <=> n = n0,
         ~ e[n0].visible => \A n \in G : ~ e[n].visible
  PROVE  Shows(lines, e, G)
<1> DEFINE shows == {p \in DOMAIN lines : lines[p].default}
<1>1. /\ \A p \in DOMAIN lines : /\ lines[p].n \in G
                                 /\ lines[p].default = e[lines[p].n].default
                                 /\ lines[p].default => lines[p].autoselect
      /\ \A n \in G : \E p \in DOMAIN lines : lines[p].n = n
      /\ \A p, q \in DOMAIN lines : lines[p].n = lines[q].n => p = q
  BY Zenon DEF LinesTold
<1>2. {lines[p].n : p \in DOMAIN lines} = G
  BY <1>1
<1>3. \A p \in DOMAIN lines : p \in shows <=> lines[p].n = n0
  BY <1>1, Zenon
<1>4. PICK p0 \in DOMAIN lines : lines[p0].n = n0
  BY <1>1
<1>5. shows = {p0}
  <2>1. \A p \in shows : p \in DOMAIN lines
    OBVIOUS
  <2> HIDE DEF shows
  <2>2. p0 \in shows
    BY <1>3, <1>4
  <2>3. \A p \in shows : p = p0
    BY <1>1, <1>3, <1>4, <2>1, Zenon
  <2> QED
    BY <2>2, <2>3
<1>6. Cardinality(shows) = 1
  <2> HIDE DEF shows
  <2> QED
    BY <1>5, FS_Singleton
<1>7. \A p \in shows : lines[p].autoselect
  BY <1>1
<1>8. \A p \in shows : lines[p].n = n0
  <2> HIDE DEF shows
  <2> QED
    BY <1>4, <1>5
<1>9. \A p \in shows : ~ e[lines[p].n].visible => \A n \in {lines[q].n : q \in DOMAIN lines} : ~ e[n].visible
  <2> HIDE DEF shows
  <2> QED
    BY <1>2, <1>8, Zenon
<1> QED
  BY <1>2, <1>6, <1>7, <1>9, Zenon DEF Shows

\* What the catalog overrides: the languages of the tracks it knows.
OverridesFor(over, known) ==
  /\ \A k : <<"audio", k>> \in DOMAIN over <=> k \in known
  /\ \A k \in known : over[<<"audio", k>>] = CatalogLanguage(k)

\* The catalog's list, an entry for each track.
CatalogEntries(known, n) ==
  [k \in 1 .. n |-> [kind |-> "audio", ordinal |-> k, lang |-> CatalogLanguage(k), valid |-> k \in known]]

\* That is what its list comes to.
LEMMA CatalogOverrides ==
  ASSUME NEW n \in Nat, NEW known \in SUBSET (1 .. n)
  PROVE  OverridesFor(TrackOverrides(CatalogEntries(known, n)), known)
<1> DEFINE entries == CatalogEntries(known, n)
           good(i) == entries[i].kind \in {"audio", "subtitle"} /\ entries[i].ordinal >= 1 /\ entries[i].valid
           track(i) == <<entries[i].kind, entries[i].ordinal>>
           named == {track(i) : i \in {j \in DOMAIN entries : good(j)}}
           last(k) == CHOOSE i \in DOMAIN entries :
                        /\ good(i) /\ track(i) = k
                        /\ \A j \in DOMAIN entries : j > i /\ good(j) => track(j) # k
           over == TrackOverrides(entries)
<1>1. over = [k \in named |-> entries[last(k)].lang]
  BY Zenon DEF TrackOverrides
<1>2. DOMAIN entries = 1 .. n
  BY DEF CatalogEntries
<1>3. ASSUME NEW k \in 1 .. n
      PROVE  /\ good(k) <=> k \in known
             /\ entries[k].kind = "audio" /\ entries[k].ordinal = k /\ entries[k].lang = CatalogLanguage(k)
  <2>1. entries[k] = [kind |-> "audio", ordinal |-> k, lang |-> CatalogLanguage(k), valid |-> k \in known]
    BY DEF CatalogEntries
  <2> HIDE DEF entries
  <2>2. entries[k].kind = "audio" /\ entries[k].ordinal = k /\ entries[k].lang = CatalogLanguage(k)
    BY <2>1
  <2>3. entries[k].valid = (k \in known)
    BY <2>1
  <2>4. entries[k].kind \in {"audio", "subtitle"} /\ entries[k].ordinal >= 1
    BY <2>2
  <2> QED
    BY <2>2, <2>3, <2>4, Zenon
<1>4. \A k \in 1 .. n : track(k) = <<"audio", k>>
  BY <1>3, Zenon
<1> HIDE DEF entries, good, track
<1>5. {j \in DOMAIN entries : good(j)} = known
  BY <1>2, <1>3
<1>6. \A k : <<"audio", k>> \in named <=> k \in known
  <2>1. named = {track(i) : i \in known}
    BY <1>5, Zenon
  <2>2. \A i \in known : track(i) = <<"audio", i>>
    BY <1>4
  <2> HIDE DEF named
  <2>3. ASSUME NEW k, <<"audio", k>> \in named  PROVE k \in known
    <3>1. PICK i \in known : track(i) = <<"audio", k>>
      BY <2>1, <2>3, Zenon
    <3>2. <<"audio", i>> = <<"audio", k>>
      BY <2>2, <3>1, Zenon
    <3>3. i = k
      BY <3>2
    <3> QED
      BY <3>3
  <2>4. ASSUME NEW k \in known  PROVE <<"audio", k>> \in named
    BY <2>1, <2>2, Zenon
  <2> QED
    BY <2>3, <2>4, Zenon
<1>7. ASSUME NEW k \in known  PROVE last(<<"audio", k>>) = k
  <2>1. \A i \in known : track(i) = <<"audio", k>> <=> i = k
    BY <1>4
  <2>2. k \in DOMAIN entries /\ good(k) /\ \A i \in DOMAIN entries : good(i) => i \in known
    BY <1>2, <1>3
  <2>3. ~ (k > k)
    BY <1>2
  <2> QED
    BY <2>1, <2>2, <2>3
<1> HIDE DEF named, last
<1>8. ASSUME NEW k \in known  PROVE over[<<"audio", k>>] = CatalogLanguage(k)
  <2>1. over[<<"audio", k>>] = entries[last(<<"audio", k>>)].lang
    BY <1>1, <1>6, Zenon
  <2>2. k \in 1 .. n
    OBVIOUS
  <2> QED
    BY <1>3, <1>7, <2>1, <2>2, Zenon
<1>9. DOMAIN over = named
  BY <1>1, Zenon
<1> HIDE DEF over
<1> QED
  BY <1>6, <1>8, <1>9, Zenon DEF OverridesFor, over, entries

\* A track of the source, and what it keeps whatever its language.
AllOf(t) == {"lang", "codec", "ch", "marks", "says"} \subseteq DOMAIN t
SameBut(t, s) == t.ch = s.ch /\ t.marks = s.marks /\ t.says = s.says

\* The tracks, as they were carried, in the languages the catalog knows.
TracksTold(tracks, source, kept, known, L) ==
  /\ Listing(tracks, L) /\ DOMAIN tracks = 1 .. L /\ Len(tracks) = L
  /\ \A p \in 1 .. L :
       /\ tracks[p].lang = IF kept[p] \in known THEN CatalogLanguage(kept[p]) ELSE "und"
       /\ SameBut(tracks[p], source[kept[p]])

\* They are so after the languages are put in.
LEMMA TracksAre ==
  ASSUME NEW source \in Seq(SourceTracks), NEW dropped, NEW known, NEW over, OverridesFor(over, known),
         NEW kept, kept = Carried(source, dropped)
  PROVE  Len(kept) \in Nat /\ DOMAIN kept = 1 .. Len(kept)
         /\ TracksTold(WithTrackLanguages("audio", [p \in DOMAIN kept |-> source[kept[p]]], source, over),
                       source, kept, known, Len(kept))
<1> DEFINE packaged == [p \in DOMAIN kept |-> source[kept[p]]]
           L == Len(kept)
           place == SourceOrdinals(packaged, source)
           tracks == WithTrackLanguages("audio", packaged, source, over)
           told(p) == [packaged[p] EXCEPT !.lang = over[<<"audio", place[p]>>]]
<1>1. L \in Nat /\ CarriedFrom(kept, packaged, source, L, Len(source)) /\ Len(source) \in Nat
  BY CarriedIs
<1>2. /\ DOMAIN packaged = 1 .. L /\ DOMAIN kept = 1 .. L /\ DOMAIN source = 1 .. Len(source)
      /\ \A p \in 1 .. L : kept[p] \in 1 .. Len(source)
  BY <1>1, Zenon DEF CarriedFrom
<1>3. \A p \in 1 .. L : packaged[p] = source[kept[p]]
  BY <1>2
<1>4. \A p \in 1 .. L : source[kept[p]] \in SourceTracks
  BY <1>2
<1>5. \A t \in SourceTracks : AllOf(t) /\ t.lang = "und"
  BY DEF SourceTracks, AllOf
<1> HIDE DEF packaged, L
<1>6. \A p \in 1 .. L : place[p] = kept[p]
  <2>1. PlacedAs(packaged, source, kept, L)
    BY <1>1, Placed, Zenon
  <2> QED
    BY <2>1, Zenon DEF PlacedAs
<1>7. tracks = [p \in DOMAIN packaged |-> IF <<"audio", place[p]>> \in DOMAIN over THEN told(p) ELSE packaged[p]]
  BY Zenon DEF WithTrackLanguages
<1>8. \A p \in 1 .. L : "lang" \in DOMAIN packaged[p] /\ "ch" \in DOMAIN packaged[p] /\ "marks" \in DOMAIN packaged[p]
                          /\ "says" \in DOMAIN packaged[p]
  BY <1>3, <1>4, <1>5 DEF AllOf
<1>9. \A p \in 1 .. L : told(p).lang = over[<<"audio", place[p]>>]
  BY <1>8, Zenon
<1>10. \A p \in 1 .. L : told(p).ch = packaged[p].ch /\ told(p).marks = packaged[p].marks /\ told(p).says = packaged[p].says
  <2>1. "lang" # "ch" /\ "lang" # "marks" /\ "lang" # "says"
    OBVIOUS
  <2> QED
    BY <1>8, <2>1, Zenon
<1> HIDE DEF told, place, tracks
<1>11. ASSUME NEW p \in 1 .. L
       PROVE  /\ tracks[p].lang = IF kept[p] \in known THEN CatalogLanguage(kept[p]) ELSE "und"
              /\ SameBut(tracks[p], source[kept[p]])
  <2>1. tracks[p] = IF <<"audio", kept[p]>> \in DOMAIN over THEN told(p) ELSE packaged[p]
    BY <1>2, <1>6, <1>7, Zenon
  <2>2. CASE kept[p] \in known
    <3>1. tracks[p] = told(p)
      BY <2>1, <2>2, Zenon DEF OverridesFor
    <3>2. told(p).lang = CatalogLanguage(kept[p])
      BY <1>6, <1>9, <2>2, Zenon DEF OverridesFor
    <3> QED
      BY <1>3, <1>10, <2>2, <3>1, <3>2, Zenon DEF SameBut
  <2>3. CASE kept[p] \notin known
    <3>1. tracks[p] = packaged[p]
      BY <2>1, <2>3, Zenon DEF OverridesFor
    <3> QED
      BY <1>3, <1>4, <1>5, <2>3, <3>1, Zenon DEF SameBut
  <2> QED
    BY <2>2, <2>3
<1>12. Listing(tracks, L) /\ DOMAIN tracks = 1 .. L /\ Len(tracks) = L
  <2>1. DOMAIN tracks = 1 .. L /\ tracks = [p \in 1 .. L |-> tracks[p]]
    BY <1>2, <1>7
  <2> QED
    BY <1>1, <2>1 DEF Listing
<1> QED
  BY <1>1, <1>2, <1>11, <1>12, Zenon DEF TracksTold, tracks, packaged, L

\* A rendition of a track, by its fields.
IsRendition(x, group, i, track) ==
  x.group = group /\ x.idx = i /\ x.lang = track.lang /\ x.purpose = AudioPurpose(track)

\* The renditions, by their fields.
RenditionsTold(e, tracks, companions, N, M, marks, visible, d, sd) ==
  /\ DOMAIN e = 1 .. (N + M) /\ Len(e) = N + M
  /\ \A i \in 1 .. N :
       /\ IsRendition(e[i], "audio", i, tracks[i])
       /\ e[i].own <=> i \in DOMAIN marks /\ marks[i] = "lifted"
       /\ e[i].default <=> i = d
       /\ e[i].visible <=> i \in visible
  /\ \A k \in 1 .. M :
       /\ IsRendition(e[N + k], "audio-surround", companions[k], tracks[companions[k]])
       /\ ~ e[N + k].own
       /\ e[N + k].default <=> companions[k] = sd
       /\ e[N + k].visible <=> companions[k] \in visible

\* A rendition listed so has these fields.
LEMMA RenditionsOf ==
  ASSUME NEW N, NEW M, NEW tracks, NEW companions, NEW marks, NEW visible, NEW d, NEW sd, NEW e,
         EntriesTold(e, tracks, companions, N, M, marks, visible, d, sd)
  PROVE  RenditionsTold(e, tracks, companions, N, M, marks, visible, d, sd)
<1>1. ASSUME NEW i \in 1 .. N
      PROVE  /\ IsRendition(e[i], "audio", i, tracks[i])
             /\ e[i].own <=> i \in DOMAIN marks /\ marks[i] = "lifted"
             /\ e[i].default <=> i = d
             /\ e[i].visible <=> i \in visible
  <2>1. e[i] = AudioEntry("audio", i, i \in DOMAIN marks /\ marks[i] = "lifted", i = d, i \in visible, tracks[i])
    BY Zenon DEF EntriesTold
  <2>2. IsRendition(e[i], "audio", i, tracks[i])
    BY <2>1 DEF AudioEntry, IsRendition
  <2>3. e[i].own = (i \in DOMAIN marks /\ marks[i] = "lifted")
    BY <2>1 DEF AudioEntry
  <2>4. e[i].default = (i = d) /\ e[i].visible = (i \in visible)
    BY <2>1 DEF AudioEntry
  <2> QED
    BY <2>2, <2>3, <2>4, Zenon
<1>2. ASSUME NEW k \in 1 .. M
      PROVE  /\ IsRendition(e[N + k], "audio-surround", companions[k], tracks[companions[k]])
             /\ ~ e[N + k].own
             /\ e[N + k].default <=> companions[k] = sd
             /\ e[N + k].visible <=> companions[k] \in visible
  <2> DEFINE x == e[N + k]
             i == companions[k]
  <2>1. x = AudioEntry("audio-surround", i, FALSE, i = sd, i \in visible, tracks[i])
    BY Zenon DEF EntriesTold
  <2> HIDE DEF x, i
  <2>2. IsRendition(x, "audio-surround", i, tracks[i])
    BY <2>1 DEF AudioEntry, IsRendition
  <2>3. x.own = FALSE
    BY <2>1 DEF AudioEntry
  <2>4. x.default = (i = sd) /\ x.visible = (i \in visible)
    BY <2>1 DEF AudioEntry
  <2> QED
    BY <2>2, <2>3, <2>4, Zenon DEF x, i
<1>3. DOMAIN e = 1 .. (N + M) /\ Len(e) = N + M
  BY Zenon DEF EntriesTold
<1> QED
  BY <1>1, <1>2, <1>3, Zenon DEF RenditionsTold

\* What the settings gave: the tracks, those shown, the default, the
\* companions and their default, the lifted ones.
Settled(source, kept, known, tracks, visible, d, plan, companions, sd, marks, lifted, N, M) ==
  /\ N \in Nat /\ M \in Nat /\ TracksTold(tracks, source, kept, known, N)
  /\ visible \in SUBSET (1 .. N)
  /\ N # 0 => d \in 1 .. N /\ (d \notin visible => visible = {})
  /\ plan \in SUBSET (1 .. N) /\ \A i \in plan : tracks[i].ch > 2
  /\ IsFiniteSet(plan) /\ M = Cardinality(plan)
  /\ DOMAIN companions = 1 .. M /\ (\A k \in 1 .. M : companions[k] \in plan)
  /\ \A i \in plan : \E k \in 1 .. M : companions[k] = i
  /\ \A k, m \in 1 .. M : companions[k] = companions[m] => k = m
  /\ plan # {} => sd \in plan /\ (sd \notin visible => plan \cap visible = {})
  /\ \A i \in 1 .. N : i \in DOMAIN marks /\ marks[i] = "lifted" <=> i \in lifted
  /\ lifted \in SUBSET (1 .. N)
  /\ DOMAIN marks = visible \cup ({d} \cap (1 .. N))
  /\ \A i \in DOMAIN marks : marks[i] \in {"lifted", "kept", "skipped"}

\* Each rendition plays what its entry says.
Plays(source, kept, known, lifted, primary, e) ==
  \A n \in DOMAIN e :
    /\ PackagedFrom(primary, e, n).track = e[n].idx
    /\ PackagedFrom(primary, e, n).mix = (IF e[n].group # "audio" THEN "surround"
                                          ELSE IF e[n].idx \in lifted THEN "lifted" ELSE "stereo")
    /\ e[n].lang = (IF kept[e[n].idx] \in known THEN CatalogLanguage(kept[e[n].idx]) ELSE "und")
    /\ e[n].purpose = AudioPurpose(source[kept[e[n].idx]])
    /\ e[n].group = "audio-surround" => source[kept[e[n].idx]].ch > 2

\* Any is a track's stereo or a companion.
LEMMA EitherGroup ==
  ASSUME NEW N \in Nat, NEW M \in Nat, NEW n \in 1 .. (N + M)
  PROVE  n \in 1 .. N \/ \E k \in 1 .. M : n = N + k
<1>1. CASE n <= N
  BY <1>1
<1>2. CASE n > N
  <2>1. n - N \in 1 .. M /\ n = N + (n - N)
    BY <1>2
  <2> QED
    BY <2>1
<1> QED
  BY <1>1, <1>2

\* A rendition is packaged from the stream of its own track.
LEMMA RenditionsPlay ==
  ASSUME NEW source, NEW kept, NEW known, NEW tracks, NEW visible, NEW d, NEW plan, NEW companions, NEW sd,
         NEW marks, NEW lifted, NEW N, NEW M,
         Settled(source, kept, known, tracks, visible, d, plan, companions, sd, marks, lifted, N, M),
         NEW e, RenditionsTold(e, tracks, companions, N, M, marks, visible, d, sd),
         NEW primary, StreamsAre(primary, companions, N, M)
  PROVE  Plays(source, kept, known, lifted, primary, e)
<1>1. \A s, t : SameBut(t, s) => AudioPurpose(t) = AudioPurpose(s) /\ t.ch = s.ch
  BY Zenon DEF SameBut, AudioPurpose
<1>2. ASSUME NEW i \in 1 .. N
      PROVE  /\ tracks[i].lang = IF kept[i] \in known THEN CatalogLanguage(kept[i]) ELSE "und"
             /\ AudioPurpose(tracks[i]) = AudioPurpose(source[kept[i]]) /\ tracks[i].ch = source[kept[i]].ch
  BY <1>1, Zenon DEF Settled, TracksTold
<1>3. \A track, mix : Stream(track, mix).track = track /\ Stream(track, mix).mix = mix
  BY DEF Stream
<1>4. ASSUME NEW n \in 1 .. N
      PROVE  /\ PackagedFrom(primary, e, n).track = e[n].idx
             /\ PackagedFrom(primary, e, n).mix = (IF e[n].group # "audio" THEN "surround"
                                                   ELSE IF e[n].idx \in lifted THEN "lifted" ELSE "stereo")
             /\ e[n].idx = n /\ e[n].group = "audio" /\ e[n].lang = tracks[n].lang
             /\ e[n].purpose = AudioPurpose(tracks[n])
  <2>1. /\ e[n].group = "audio" /\ e[n].idx = n /\ e[n].lang = tracks[n].lang
        /\ e[n].purpose = AudioPurpose(tracks[n])
        /\ e[n].own <=> n \in lifted
    BY Zenon DEF RenditionsTold, IsRendition, Settled
  <2>2. PackagedFrom(primary, e, n) = IF n \in lifted THEN Stream(n, "lifted") ELSE Stream(n, "stereo")
    <3>1. primary[n + 1] = Stream(n, "stereo")
      BY Zenon DEF StreamsAre
    <3> QED
      BY <2>1, <3>1, Zenon DEF PackagedFrom, StreamNumber
  <2>3. PackagedFrom(primary, e, n).track = n
    BY <1>3, <2>2, Zenon
  <2>4. PackagedFrom(primary, e, n).mix = IF n \in lifted THEN "lifted" ELSE "stereo"
    BY <1>3, <2>2, Zenon
  <2>5. PackagedFrom(primary, e, n).mix = (IF e[n].group # "audio" THEN "surround"
                                           ELSE IF e[n].idx \in lifted THEN "lifted" ELSE "stereo")
    BY <2>1, <2>4
  <2>6. PackagedFrom(primary, e, n).track = e[n].idx
    BY <2>1, <2>3
  <2> QED
    BY <2>1, <2>5, <2>6
<1>5. ASSUME NEW k \in 1 .. M
      PROVE  /\ PackagedFrom(primary, e, N + k).track = e[N + k].idx
             /\ PackagedFrom(primary, e, N + k).mix = "surround"
             /\ e[N + k].idx = companions[k] /\ e[N + k].group = "audio-surround"
             /\ e[N + k].lang = tracks[companions[k]].lang
             /\ e[N + k].purpose = AudioPurpose(tracks[companions[k]])
  <2>1. /\ e[N + k].group = "audio-surround" /\ e[N + k].idx = companions[k]
        /\ e[N + k].lang = tracks[companions[k]].lang
        /\ e[N + k].purpose = AudioPurpose(tracks[companions[k]])
        /\ ~ e[N + k].own
    BY Zenon DEF RenditionsTold, IsRendition
  <2>2. PackagedFrom(primary, e, N + k) = Stream(companions[k], "surround")
    <3>1. primary[N + k + 1] = Stream(companions[k], "surround")
      BY Zenon DEF StreamsAre
    <3> QED
      BY <2>1, <3>1, Zenon DEF PackagedFrom, StreamNumber
  <2>3. PackagedFrom(primary, e, N + k).track = companions[k]
    BY <1>3, <2>2, Zenon
  <2>4. PackagedFrom(primary, e, N + k).mix = "surround"
    BY <1>3, <2>2, Zenon
  <2> QED
    BY <2>1, <2>3, <2>4
<1>6. \A k \in 1 .. M : companions[k] \in 1 .. N /\ tracks[companions[k]].ch > 2
  BY DEF Settled
<1>7. "audio" # "audio-surround"
  OBVIOUS
<1>8. \A n \in DOMAIN e : n \in 1 .. N \/ \E k \in 1 .. M : n = N + k
  <2>1. N \in Nat /\ M \in Nat /\ DOMAIN e = 1 .. (N + M)
    BY Zenon DEF Settled, RenditionsTold
  <2> QED
    BY <2>1, EitherGroup
<1>9. ASSUME NEW n \in DOMAIN e
      PROVE /\ PackagedFrom(primary, e, n).track = e[n].idx
            /\ PackagedFrom(primary, e, n).mix = (IF e[n].group # "audio" THEN "surround"
                                                  ELSE IF e[n].idx \in lifted THEN "lifted" ELSE "stereo")
            /\ e[n].lang = (IF kept[e[n].idx] \in known THEN CatalogLanguage(kept[e[n].idx]) ELSE "und")
            /\ e[n].purpose = AudioPurpose(source[kept[e[n].idx]])
            /\ e[n].group = "audio-surround" => source[kept[e[n].idx]].ch > 2
  <2>1. CASE n \in 1 .. N
    <3>1. /\ PackagedFrom(primary, e, n).track = e[n].idx
          /\ PackagedFrom(primary, e, n).mix = (IF e[n].group # "audio" THEN "surround"
                                                ELSE IF e[n].idx \in lifted THEN "lifted" ELSE "stereo")
          /\ e[n].idx = n /\ e[n].group = "audio" /\ e[n].lang = tracks[n].lang
          /\ e[n].purpose = AudioPurpose(tracks[n])
      BY <1>4, <2>1, Zenon
    <3>2. /\ tracks[n].lang = IF kept[n] \in known THEN CatalogLanguage(kept[n]) ELSE "und"
          /\ AudioPurpose(tracks[n]) = AudioPurpose(source[kept[n]])
      BY <1>2, <2>1, Zenon
    <3>3. e[n].lang = (IF kept[e[n].idx] \in known THEN CatalogLanguage(kept[e[n].idx]) ELSE "und")
      BY <3>1, <3>2
    <3>4. e[n].purpose = AudioPurpose(source[kept[e[n].idx]])
      BY <3>1, <3>2
    <3> QED
      BY <1>7, <3>1, <3>3, <3>4
  <2>2. ASSUME NEW k \in 1 .. M, n = N + k
        PROVE  /\ PackagedFrom(primary, e, n).track = e[n].idx
               /\ PackagedFrom(primary, e, n).mix = "surround" /\ e[n].group = "audio-surround"
               /\ e[n].lang = (IF kept[e[n].idx] \in known THEN CatalogLanguage(kept[e[n].idx]) ELSE "und")
               /\ e[n].purpose = AudioPurpose(source[kept[e[n].idx]])
               /\ source[kept[e[n].idx]].ch > 2
    <3> DEFINE c == companions[k]
    <3>1. /\ PackagedFrom(primary, e, n).track = e[n].idx /\ PackagedFrom(primary, e, n).mix = "surround"
          /\ e[n].idx = c /\ e[n].group = "audio-surround" /\ e[n].lang = tracks[c].lang
          /\ e[n].purpose = AudioPurpose(tracks[c])
      BY <1>5, <2>2, Zenon
    <3>2. c \in 1 .. N /\ tracks[c].ch > 2
      BY <1>6
    <3> HIDE DEF c
    <3>3. /\ tracks[c].lang = IF kept[c] \in known THEN CatalogLanguage(kept[c]) ELSE "und"
          /\ AudioPurpose(tracks[c]) = AudioPurpose(source[kept[c]]) /\ tracks[c].ch = source[kept[c]].ch
      BY <1>2, <3>2, Zenon
    <3>4. e[n].lang = (IF kept[e[n].idx] \in known THEN CatalogLanguage(kept[e[n].idx]) ELSE "und")
      BY <3>1, <3>3
    <3>5. e[n].purpose = AudioPurpose(source[kept[e[n].idx]]) /\ source[kept[e[n].idx]].ch > 2
      BY <3>1, <3>2, <3>3
    <3> QED
      BY <3>1, <3>4, <3>5
  <2>3. CASE \E k \in 1 .. M : n = N + k
    <3>1. PICK k \in 1 .. M : n = N + k
      BY <2>3, Zenon
    <3>2. /\ PackagedFrom(primary, e, n).track = e[n].idx
          /\ PackagedFrom(primary, e, n).mix = "surround" /\ e[n].group = "audio-surround"
          /\ e[n].lang = (IF kept[e[n].idx] \in known THEN CatalogLanguage(kept[e[n].idx]) ELSE "und")
          /\ e[n].purpose = AudioPurpose(source[kept[e[n].idx]])
          /\ source[kept[e[n].idx]].ch > 2
      BY <2>2, <3>1
    <3> QED
      BY <1>7, <3>2
  <2> QED
    BY <1>8, <2>1, <2>3, Zenon
<1> QED
  BY <1>9, Zenon DEF Plays

\* N tracks.
Numbered(tracks, N) == IsSource(tracks) /\ DOMAIN tracks = 1 .. N /\ Len(tracks) = N /\ Indices(tracks) = 1 .. N

\* A default is one of them, and shown where any is.
DefaultOf(d, visible, N) == N # 0 => d \in 1 .. N /\ (d \notin visible => visible = {})

\* The one that is picked is such a default.
LEMMA AudioDefault ==
  ASSUME NEW N \in Nat, NEW tracks, Numbered(tracks, N), NEW visible \in SUBSET (1 .. N)
  PROVE  DefaultOf(PickDefaultAudio(tracks, visible, <<>>), visible, N)
<1> DEFINE d == PickDefaultAudio(tracks, visible, <<>>)
           rank == [i \in 1 .. N |-> AudioRank(tracks, visible, i)]
           n == N + 1
<1> SUFFICES ASSUME N # 0  PROVE d \in 1 .. N /\ (d \notin visible => visible = {})
  BY DEF DefaultOf
<1>1. /\ IsSource(tracks) /\ DOMAIN tracks = 1 .. N /\ Len(tracks) = N /\ Indices(tracks) = 1 .. N
      /\ <<>> \in Preferences
  BY DEF Numbered, Preferences
<1>2. tracks # <<>>
  BY <1>1, SourceIndices
<1>3. PickedFrom(tracks, <<>>) = 1 .. N
  BY <1>1 DEF PickedFrom
<1>4. d \in 1 .. N /\ \A j \in 1 .. N : AudioRank(tracks, visible, d) <= AudioRank(tracks, visible, j)
  BY <1>1, <1>2, <1>3, DefaultPicked
<1>5. \A i \in 1 .. N : rank[i] \in Nat /\ (i \notin visible => rank[i] > 4 * n) /\ (i \in visible => rank[i] < 4 * n)
  BY <1>1, AudioRanks
<1> HIDE DEF d
<1>6. \A j \in 1 .. N : rank[d] <= rank[j]
  BY <1>4
<1>7. n \in Nat
  OBVIOUS
<1> HIDE DEF rank, n
<1>8. d \notin visible => visible = {}
  BY <1>4, <1>5, <1>6, <1>7
<1> QED
  BY <1>4, <1>8

\* Each of the plan has a companion, and the default is one of them.
CompanionsOf(plan, companions, tracks, N) ==
  /\ plan \in SUBSET (1 .. N) /\ \A i \in plan : tracks[i].ch > 2
  /\ IsFiniteSet(plan) /\ Len(companions) = Cardinality(plan) /\ Len(companions) \in Nat
  /\ DOMAIN companions = 1 .. Len(companions) /\ (\A k \in 1 .. Len(companions) : companions[k] \in plan)
  /\ \A i \in plan : \E k \in 1 .. Len(companions) : companions[k] = i
  /\ \A k, m \in 1 .. Len(companions) : companions[k] = companions[m] => k = m

\* They are, in the order of their tracks.
LEMMA PlanCompanions ==
  ASSUME NEW N \in Nat, NEW tracks, Numbered(tracks, N), NEW visible, NEW d,
         NEW plan, plan = SurroundPlan(tracks, visible, d, "eac3"),
         NEW companions, companions = InOrder(plan, N)
  PROVE  CompanionsOf(plan, companions, tracks, N)
<1> DEFINE M == Len(companions)
<1>1. IsSource(tracks) /\ DOMAIN tracks = 1 .. N
  BY DEF Numbered
<1>2. plan \in SUBSET (1 .. N) /\ \A i \in plan : tracks[i].ch > 2
  <2>1. plan \subseteq {i \in DOMAIN tracks : IsFilmSurround(tracks[i])}
    BY <1>1, Companions
  <2> QED
    BY <1>1, <2>1 DEF IsFilmSurround
<1>3. IsFiniteSet(plan) /\ M = Cardinality(plan)
  BY <1>2, InOrderSize
<1>4. /\ companions \in Seq(plan) /\ \A i \in plan : \E k \in 1 .. M : companions[k] = i
      /\ \A k, m \in 1 .. M : k < m => companions[k] < companions[m]
  <2>1. LET o == InOrder(plan, N)
        IN /\ o \in Seq(plan) /\ \A k \in plan : \E i \in 1 .. Len(o) : o[i] = k
           /\ \A i, j \in 1 .. Len(o) : i < j => o[i] < o[j]
    BY <1>2, InOrderIs
  <2> QED
    BY <2>1, Zenon
<1>5. M \in Nat /\ DOMAIN companions = 1 .. M /\ \A k \in 1 .. M : companions[k] \in plan
  BY <1>4
<1> HIDE DEF M
<1>6. \A k, m \in 1 .. M : companions[k] = companions[m] => k = m
  <2>1. \A k \in 1 .. M : companions[k] \in Nat /\ k \in Nat
    BY <1>2, <1>5
  <2>2. ASSUME NEW k \in 1 .. M, NEW m \in 1 .. M, companions[k] = companions[m]  PROVE k = m
    <3>1. ~ (k < m) /\ ~ (m < k)
      BY <1>4, <2>1, <2>2
    <3> QED
      BY <2>1, <3>1
  <2> QED
    BY <2>2
<1> QED
  BY <1>2, <1>3, <1>4, <1>5, <1>6, Zenon DEF CompanionsOf, M

\* The companions' default is one of them, and shown where any is.
IsCompanionDefault(sd, plan, visible) == plan # {} => sd \in plan /\ (sd \notin visible => plan \cap visible = {})

\* The one that is picked is such a default of the companions.
LEMMA CompanionDefault ==
  ASSUME NEW N \in Nat, NEW tracks, Numbered(tracks, N), NEW visible, NEW d, DefaultOf(d, visible, N),
         NEW plan \in SUBSET (1 .. N)
  PROVE  IsCompanionDefault(PickDefaultSurround(plan, tracks, visible, d, <<>>), plan, visible)
<1> SUFFICES ASSUME plan # {}
             PROVE  LET sd == PickDefaultSurround(plan, tracks, visible, d, <<>>)
                    IN sd \in plan /\ (sd \notin visible => plan \cap visible = {})
  BY Zenon DEF IsCompanionDefault
<1>1. IsSource(tracks) /\ DOMAIN tracks = 1 .. N /\ <<>> \in Preferences /\ d \in DOMAIN tracks
      /\ plan \subseteq DOMAIN tracks
  <2>1. N # 0
    <3>1. PICK i \in plan : i \in 1 .. N
      OBVIOUS
    <3> QED
      BY <3>1
  <2>2. d \in 1 .. N
    BY <2>1, Zenon DEF DefaultOf
  <2> QED
    BY <2>2 DEF Numbered, Preferences
<1> DEFINE sd == PickDefaultSurround(plan, tracks, visible, d, <<>>)
<1>2. sd \in plan /\ (plan \cap visible # {} => sd \in plan \cap visible)
  BY <1>1, SurroundPicked
<1> HIDE DEF sd
<1>3. sd \in plan /\ (sd \notin visible => plan \cap visible = {})
  BY <1>2
<1> QED
  BY <1>3 DEF sd

\* What becomes of the tracks shown.
MarksOf(marks, shown, lifted) ==
  /\ DOMAIN marks = shown /\ lifted \subseteq shown
  /\ \A i \in shown : marks[i] \in {"lifted", "kept", "skipped"} /\ (marks[i] = "lifted" <=> i \in lifted)

\* Those with a signal are lifted or kept, the others skipped.
LEMMA MarksAre ==
  ASSUME NEW shown, NEW room, NEW lift, NEW signals, signals = StereoSignals(shown, {-240}, room)
  PROVE  MarksOf(Marks(shown, [i \in signals |-> IF i \in lift THEN "lifted" ELSE "kept"], {-240}),
                 shown, lift \cap signals)
<1> DEFINE lifts == [i \in signals |-> IF i \in lift THEN "lifted" ELSE "kept"]
           marks == Marks(shown, lifts, {-240})
<1>1. signals \subseteq shown
  BY DEF StereoSignals
<1>2. DOMAIN lifts = signals /\ \A i \in signals : lifts[i] = IF i \in lift THEN "lifted" ELSE "kept"
  OBVIOUS
<1> HIDE DEF lifts
<1>3. marks = [i \in shown |-> IF i \in signals THEN lifts[i] ELSE "skipped"]
  BY <1>2 DEF Marks
<1> HIDE DEF marks
<1>4. DOMAIN marks = shown /\ \A i \in shown : marks[i] = IF i \in signals THEN lifts[i] ELSE "skipped"
  BY <1>3
<1>5. ASSUME NEW i \in shown
      PROVE marks[i] \in {"lifted", "kept", "skipped"} /\ (marks[i] = "lifted" <=> i \in lift \cap signals)
  BY <1>2, <1>4
<1> QED
  BY <1>1, <1>4, <1>5 DEF MarksOf, marks, lifts

\* What the settings of a package give.
LEMMA SettledIs ==
  ASSUME NEW source, NEW kept, NEW known, NEW N \in Nat, NEW tracks, TracksTold(tracks, source, kept, known, N),
         NEW visible \in SUBSET (1 .. N), NEW d, DefaultOf(d, visible, N),
         NEW plan, NEW companions, CompanionsOf(plan, companions, tracks, N),
         NEW sd, IsCompanionDefault(sd, plan, visible),
         NEW marks, NEW lifted, MarksOf(marks, visible \cup ({d} \cap (1 .. N)), lifted)
  PROVE  Settled(source, kept, known, tracks, visible, d, plan, companions, sd, marks, lifted, N, Len(companions))
<1> DEFINE M == Len(companions)
           shown == visible \cup ({d} \cap (1 .. N))
<1>1. shown \subseteq 1 .. N
  OBVIOUS
<1> HIDE DEF shown
<1>2. /\ DOMAIN marks = shown /\ lifted \subseteq shown
      /\ \A i \in shown : marks[i] \in {"lifted", "kept", "skipped"} /\ (marks[i] = "lifted" <=> i \in lifted)
  BY DEF MarksOf, shown
<1>3. lifted \in SUBSET (1 .. N) /\ \A i \in 1 .. N : i \in DOMAIN marks /\ marks[i] = "lifted" <=> i \in lifted
  BY <1>1, <1>2
<1>4. \A i \in DOMAIN marks : marks[i] \in {"lifted", "kept", "skipped"}
  BY <1>2
<1>5. /\ plan \in SUBSET (1 .. N) /\ \A i \in plan : tracks[i].ch > 2
      /\ IsFiniteSet(plan) /\ M = Cardinality(plan) /\ M \in Nat
      /\ DOMAIN companions = 1 .. M /\ (\A k \in 1 .. M : companions[k] \in plan)
      /\ \A i \in plan : \E k \in 1 .. M : companions[k] = i
      /\ \A k, m \in 1 .. M : companions[k] = companions[m] => k = m
  BY Zenon DEF CompanionsOf
<1>6. N # 0 => d \in 1 .. N /\ (d \notin visible => visible = {})
  BY Zenon DEF DefaultOf
<1> HIDE DEF M
<1> QED
  BY <1>2, <1>3, <1>4, <1>5, <1>6, Zenon DEF Settled, IsCompanionDefault, M, shown

\* Every track in stereo, and the companions.
GroupsTold(e, N, M) ==
  /\ GroupOf(e, "audio") = 1 .. N
  /\ \A n : n \in GroupOf(e, "audio-surround") <=> \E k \in 1 .. M : n = N + k
  /\ GroupsOf(e) \subseteq {"audio", "audio-surround"}

\* The renditions are in these groups.
LEMMA GroupsAre ==
  ASSUME NEW N \in Nat, NEW M \in Nat, NEW tracks, NEW companions, NEW marks, NEW visible, NEW d, NEW sd, NEW e,
         RenditionsTold(e, tracks, companions, N, M, marks, visible, d, sd)
  PROVE  GroupsTold(e, N, M)
<1>1. DOMAIN e = 1 .. (N + M)
  BY Zenon DEF RenditionsTold
<1>2. \A i \in 1 .. N : i \in DOMAIN e /\ e[i].group = "audio"
  <2>1. \A i \in 1 .. N : e[i].group = "audio"
    BY Zenon DEF RenditionsTold, IsRendition
  <2> QED
    BY <1>1, <2>1
<1>3. \A k \in 1 .. M : N + k \in DOMAIN e /\ e[N + k].group = "audio-surround"
  <2>1. \A k \in 1 .. M : e[N + k].group = "audio-surround"
    BY Zenon DEF RenditionsTold, IsRendition
  <2>2. \A k \in 1 .. M : N + k \in 1 .. (N + M)
    OBVIOUS
  <2> QED
    BY <1>1, <2>1, <2>2, Zenon
<1>4. \A n \in DOMAIN e : n \in 1 .. N \/ \E k \in 1 .. M : n = N + k
  BY <1>1, EitherGroup
<1>5. "audio" # "audio-surround"
  OBVIOUS
<1>6. ASSUME NEW n  PROVE n \in GroupOf(e, "audio") <=> n \in 1 .. N
  BY <1>2, <1>3, <1>4, <1>5, Zenon DEF GroupOf
<1>7. ASSUME NEW n  PROVE n \in GroupOf(e, "audio-surround") <=> \E k \in 1 .. M : n = N + k
  BY <1>2, <1>3, <1>4, <1>5, Zenon DEF GroupOf
<1>8. \A n \in DOMAIN e : e[n].group \in {"audio", "audio-surround"}
  BY <1>2, <1>3, <1>4, Zenon
<1>9. GroupsOf(e) \subseteq {"audio", "audio-surround"}
  BY <1>8 DEF GroupsOf
<1>10. GroupOf(e, "audio") = 1 .. N
  BY <1>6
<1> QED
  BY <1>7, <1>9, <1>10, Zenon DEF GroupsTold

\* No track is missing in its group, and none there twice.
AllHeard(e, tracks, plan) ==
  /\ {e[n].idx : n \in GroupOf(e, "audio")} = DOMAIN tracks
  /\ {e[n].idx : n \in GroupOf(e, "audio-surround")} = plan
  /\ Len(e) = Len(tracks) + Cardinality(plan)

\* The renditions of a package leave none out.
LEMMA EachHeard ==
  ASSUME NEW source, NEW kept, NEW known, NEW tracks, NEW visible, NEW d, NEW plan, NEW companions, NEW sd,
         NEW marks, NEW lifted, NEW N, NEW M,
         Settled(source, kept, known, tracks, visible, d, plan, companions, sd, marks, lifted, N, M),
         NEW e, RenditionsTold(e, tracks, companions, N, M, marks, visible, d, sd)
  PROVE  AllHeard(e, tracks, plan)
<1>1. N \in Nat /\ M \in Nat /\ M = Cardinality(plan)
  BY Zenon DEF Settled
<1>2. DOMAIN tracks = 1 .. N /\ Len(tracks) = N
  BY Zenon DEF Settled, TracksTold
<1>3. \A i \in 1 .. N : e[i].idx = i
  BY Zenon DEF RenditionsTold, IsRendition
<1>4. \A k \in 1 .. M : e[N + k].idx = companions[k]
  BY Zenon DEF RenditionsTold, IsRendition
<1>5. (\A k \in 1 .. M : companions[k] \in plan) /\ \A i \in plan : \E k \in 1 .. M : companions[k] = i
  BY Zenon DEF Settled
<1>6. /\ GroupOf(e, "audio") = 1 .. N
      /\ \A n : n \in GroupOf(e, "audio-surround") <=> \E k \in 1 .. M : n = N + k
  <2>1. GroupsTold(e, N, M)
    BY <1>1, GroupsAre, Zenon
  <2> QED
    BY <2>1, Zenon DEF GroupsTold
<1>7. {e[n].idx : n \in GroupOf(e, "audio")} = DOMAIN tracks
  BY <1>2, <1>3, <1>6
<1>8. {e[n].idx : n \in GroupOf(e, "audio-surround")} = plan
  <2> DEFINE G == GroupOf(e, "audio-surround")
  <2> HIDE DEF G
  <2>1. \A n : n \in G <=> \E k \in 1 .. M : n = N + k
    BY <1>6, Zenon DEF G
  <2>2. ASSUME NEW n \in G  PROVE e[n].idx \in plan
    <3>1. PICK k \in 1 .. M : n = N + k
      BY <2>1, Zenon
    <3>2. e[n].idx = companions[k]
      BY <1>4, <3>1, Zenon
    <3> QED
      BY <1>5, <3>2
  <2>3. \A i \in plan : \E n \in G : e[n].idx = i
    BY <1>4, <1>5, <2>1, Zenon
  <2>4. {e[n].idx : n \in G} = plan
    BY <2>2, <2>3
  <2> QED
    BY <2>4 DEF G
<1>9. Len(e) = N + M
  BY Zenon DEF RenditionsTold
<1> QED
  BY <1>1, <1>2, <1>7, <1>8, <1>9, Zenon DEF AllHeard

\* Each track that is shown is counted once.
CountsAll(e, stereo) ==
  /\ stereo.lifted = Cardinality({n \in DOMAIN e : e[n].own})
  /\ stereo.lifted + stereo.kept + stereo.skipped =
       Cardinality({n \in DOMAIN e : e[n].group = "audio" /\ (e[n].visible \/ e[n].default)})

\* What is lifted, kept and skipped is all there is.
LEMMA ThreeKinds ==
  ASSUME NEW S, IsFiniteSet(S), NEW f, \A i \in S : f[i] \in {"lifted", "kept", "skipped"}
  PROVE  Cardinality({i \in S : f[i] = "lifted"}) + Cardinality({i \in S : f[i] = "kept"})
           + Cardinality({i \in S : f[i] = "skipped"}) = Cardinality(S)
<1> DEFINE A == {i \in S : f[i] = "lifted"}
           B == {i \in S : f[i] = "kept"}
           C == {i \in S : f[i] = "skipped"}
<1>1. A \in SUBSET S /\ B \in SUBSET S /\ C \in SUBSET S
  OBVIOUS
<1>2. A \cap B = {} /\ (A \cup B) \cap C = {} /\ (A \cup B) \cup C = S
  OBVIOUS
<1> HIDE DEF A, B, C
<1>3. IsFiniteSet(A) /\ IsFiniteSet(B) /\ IsFiniteSet(C)
  BY <1>1, FS_Subset, Zenon
<1>4. IsFiniteSet(A \cup B) /\ Cardinality(A \cup B) = Cardinality(A) + Cardinality(B) - Cardinality(A \cap B)
  BY <1>3, FS_Union, Zenon
<1>5. Cardinality((A \cup B) \cup C) = Cardinality(A \cup B) + Cardinality(C) - Cardinality((A \cup B) \cap C)
  BY <1>3, <1>4, FS_Union, Zenon
<1>6. Cardinality({}) = 0
  BY FS_EmptySet
<1>7. Cardinality(A) \in Nat /\ Cardinality(B) \in Nat /\ Cardinality(C) \in Nat
  BY <1>3, FS_CardinalityType
<1>8. Cardinality(S) = Cardinality(A) + Cardinality(B) + Cardinality(C)
  <2>1. Cardinality(A \cup B) = Cardinality(A) + Cardinality(B)
    <3>1. Cardinality(A \cup B) = Cardinality(A) + Cardinality(B) - 0
      BY <1>2, <1>4, <1>6, Zenon
    <3> QED
      BY <1>7, <3>1
  <2>2. Cardinality(S) = Cardinality(A \cup B) + Cardinality(C) - 0
    BY <1>2, <1>5, <1>6, Zenon
  <2> QED
    BY <1>7, <2>1, <2>2
<1> QED
  BY <1>8 DEF A, B, C

\* The done step counts so.
LEMMA EachCounted ==
  ASSUME NEW source, NEW kept, NEW known, NEW tracks, NEW visible, NEW d, NEW plan, NEW companions, NEW sd,
         NEW marks, NEW lifted, NEW N, NEW M,
         Settled(source, kept, known, tracks, visible, d, plan, companions, sd, marks, lifted, N, M),
         NEW e, RenditionsTold(e, tracks, companions, N, M, marks, visible, d, sd),
         NEW target
  PROVE  CountsAll(e, StereoLoudnessOf(marks, target))
<1> DEFINE of(m) == Cardinality({i \in DOMAIN marks : marks[i] = m})
           stereo == StereoLoudnessOf(marks, target)
           own == {n \in DOMAIN e : e[n].own}
           heard == {n \in DOMAIN e : e[n].group = "audio" /\ (e[n].visible \/ e[n].default)}
<1>1. stereo.lifted = of("lifted") /\ stereo.kept = of("kept") /\ stereo.skipped = of("skipped")
  BY DEF StereoLoudnessOf
<1>2. N \in Nat /\ M \in Nat /\ DOMAIN e = 1 .. (N + M)
  BY Zenon DEF Settled, RenditionsTold
<1>3. /\ visible \in SUBSET (1 .. N) /\ DOMAIN marks = visible \cup ({d} \cap (1 .. N))
      /\ \A i \in DOMAIN marks : marks[i] \in {"lifted", "kept", "skipped"}
  BY Zenon DEF Settled
<1>4. IsFiniteSet(DOMAIN marks) /\ DOMAIN marks \subseteq 1 .. N
  <2>1. DOMAIN marks \in SUBSET (1 .. N)
    BY <1>3
  <2>2. N \in Int /\ 1 \in Int
    BY <1>2
  <2>3. IsFiniteSet(1 .. N)
    BY <2>2, FS_Interval, Zenon
  <2> QED
    BY <2>1, <2>3, FS_Subset
<1>5. of("lifted") + of("kept") + of("skipped") = Cardinality(DOMAIN marks)
  BY <1>3, <1>4, ThreeKinds, Zenon
<1>6. ASSUME NEW i \in 1 .. N
      PROVE  /\ e[i].group = "audio" /\ i \in DOMAIN e
             /\ e[i].own <=> i \in DOMAIN marks /\ marks[i] = "lifted"
             /\ e[i].default <=> i = d
             /\ e[i].visible <=> i \in visible
  <2>1. i \in DOMAIN e
    BY <1>2
  <2> QED
    BY <2>1, Zenon DEF RenditionsTold, IsRendition
<1>7. ASSUME NEW k \in 1 .. M
      PROVE  e[N + k].group # "audio" /\ ~ e[N + k].own
  <2>1. e[N + k].group = "audio-surround" /\ ~ e[N + k].own
    BY Zenon DEF RenditionsTold, IsRendition
  <2> QED
    BY <2>1
<1>8. \A n \in DOMAIN e : n \in 1 .. N \/ \E k \in 1 .. M : n = N + k
  BY <1>2, EitherGroup
<1>9. own = {i \in DOMAIN marks : marks[i] = "lifted"}
  <2>1. ASSUME NEW n  PROVE n \in own <=> n \in {i \in DOMAIN marks : marks[i] = "lifted"}
    <3>1. n \in own => n \in DOMAIN marks /\ marks[n] = "lifted"
      BY <1>6, <1>7, <1>8, Zenon
    <3>2. n \in DOMAIN marks /\ marks[n] = "lifted" => n \in own
      BY <1>4, <1>6, Zenon
    <3> QED
      BY <3>1, <3>2, Zenon
  <2> HIDE DEF own
  <2> QED
    BY <2>1
<1>10. heard = DOMAIN marks
  <2>1. ASSUME NEW n  PROVE n \in heard <=> n \in DOMAIN marks
    <3>1. n \in heard => n \in 1 .. N /\ (n \in visible \/ n = d)
      BY <1>6, <1>7, <1>8, Zenon
    <3>2. n \in 1 .. N /\ (n \in visible \/ n = d) => n \in heard
      BY <1>6, Zenon
    <3>3. n \in DOMAIN marks <=> n \in 1 .. N /\ (n \in visible \/ n = d)
      BY <1>3
    <3> HIDE DEF heard
    <3> QED
      BY <3>1, <3>2, <3>3, Zenon
  <2> HIDE DEF heard
  <2> QED
    BY <2>1
<1> HIDE DEF stereo
<1>11. stereo.lifted = Cardinality(own) /\ stereo.lifted + stereo.kept + stereo.skipped = Cardinality(heard)
  <2>1. of("lifted") = Cardinality(own)
    BY <1>9, Zenon
  <2>2. Cardinality(heard) = Cardinality(DOMAIN marks)
    BY <1>10, Zenon
  <2> HIDE DEF of, own, heard
  <2> QED
    BY <1>1, <1>5, <2>1, <2>2
<1> QED
  BY <1>11, Zenon DEF CountsAll, stereo

\* Each group shows its default.
LEMMA EachShows ==
  ASSUME NEW source, NEW kept, NEW known, NEW tracks, NEW visible, NEW d, NEW plan, NEW companions, NEW sd,
         NEW marks, NEW lifted, NEW N, NEW M,
         Settled(source, kept, known, tracks, visible, d, plan, companions, sd, marks, lifted, N, M),
         NEW e, RenditionsTold(e, tracks, companions, N, M, marks, visible, d, sd),
         NEW group \in GroupsOf(e)
  PROVE  Shows(MediaLines(e, group), e, GroupOf(e, group))
<1>1. N \in Nat /\ M \in Nat /\ DOMAIN e = 1 .. (N + M) /\ Len(e) = N + M
  BY Zenon DEF Settled, RenditionsTold
<1>2. LinesTold(MediaLines(e, group), e, GroupOf(e, group))
  <2> DEFINE L == N + M
  <2>1. L \in Nat
    BY <1>1
  <2>2. DOMAIN e = 1 .. L /\ Len(e) = L
    BY <1>1
  <2> HIDE DEF L
  <2> QED
    BY <2>1, <2>2, LinesAre, Zenon
<1>3. PICK n1 \in GroupOf(e, group) : TRUE
  <2>1. \E n \in DOMAIN e : group = e[n].group
    BY Zenon DEF GroupsOf
  <2> QED
    BY <2>1, Zenon DEF GroupOf
<1>4. /\ GroupOf(e, "audio") = 1 .. N
      /\ \A n : n \in GroupOf(e, "audio-surround") <=> \E k \in 1 .. M : n = N + k
      /\ group \in {"audio", "audio-surround"}
  <2>1. GroupsTold(e, N, M)
    BY <1>1, GroupsAre, Zenon
  <2>2. GroupsOf(e) \subseteq {"audio", "audio-surround"}
    BY <2>1, Zenon DEF GroupsTold
  <2>3. group \in {"audio", "audio-surround"}
    BY <2>2
  <2> QED
    BY <2>1, <2>3, Zenon DEF GroupsTold
<1>5. CASE group = "audio"
  <2>1. N # 0
    BY <1>1, <1>3, <1>4, <1>5
  <2>2. d \in 1 .. N /\ (d \notin visible => visible = {})
    BY <2>1, Zenon DEF Settled
  <2>3. \A i \in 1 .. N : (e[i].default <=> i = d) /\ (e[i].visible <=> i \in visible)
    BY Zenon DEF RenditionsTold
  <2>4. ~ e[d].visible => \A n \in 1 .. N : ~ e[n].visible
    BY <2>2, <2>3
  <2> QED
    BY <1>2, <1>4, <1>5, <2>2, <2>3, <2>4, OneShown, Zenon
<1>6. CASE group = "audio-surround"
  <2> DEFINE G == GroupOf(e, "audio-surround")
  <2>1. PICK k1 \in 1 .. M : n1 = N + k1
    BY <1>3, <1>4, <1>6, Zenon
  <2>2. /\ \A k \in 1 .. M : companions[k] \in plan
        /\ \A i \in plan : \E k \in 1 .. M : companions[k] = i
        /\ \A k, m \in 1 .. M : companions[k] = companions[m] => k = m
        /\ plan # {} => sd \in plan /\ (sd \notin visible => plan \cap visible = {})
    BY Zenon DEF Settled
  <2>3. sd \in plan /\ (sd \notin visible => plan \cap visible = {})
    BY <2>2
  <2>4. PICK k0 \in 1 .. M : companions[k0] = sd
    BY <2>2, <2>3
  <2>5. \A k \in 1 .. M : (e[N + k].default <=> companions[k] = sd) /\ (e[N + k].visible <=> companions[k] \in visible)
    BY Zenon DEF RenditionsTold
  <2> HIDE DEF G
  <2>6. \A n : n \in G <=> \E k \in 1 .. M : n = N + k
    BY <1>4, Zenon DEF G
  <2>7. \A k \in 1 .. M : N + k = N + k0 <=> k = k0
    BY <1>1
  <2>8. N + k0 \in G
    BY <2>6, Zenon
  <2>9. ASSUME NEW n \in G  PROVE e[n].default <=> n = N + k0
    <3>1. PICK k \in 1 .. M : n = N + k
      BY <2>6, Zenon
    <3>2. e[n].default <=> companions[k] = companions[k0]
      BY <2>4, <2>5, <3>1, Zenon
    <3>3. companions[k] = companions[k0] <=> k = k0
      BY <2>2, Zenon
    <3> QED
      BY <2>7, <3>1, <3>2, <3>3, Zenon
  <2>10. ASSUME ~ e[N + k0].visible, NEW n \in G  PROVE ~ e[n].visible
    <3>1. PICK k \in 1 .. M : n = N + k
      BY <2>6, Zenon
    <3>2. sd \notin visible
      BY <2>4, <2>5, <2>10, Zenon
    <3>3. companions[k] \notin visible
      BY <2>2, <2>3, <3>2
    <3> QED
      BY <2>5, <3>1, <3>3, Zenon
  <2>11. LinesTold(MediaLines(e, group), e, G)
    BY <1>2, <1>6, Zenon DEF G
  <2> DEFINE n0 == N + k0
  <2>12. n0 \in G /\ (\A n \in G : e[n].default <=> n = n0) /\ (~ e[n0].visible => \A n \in G : ~ e[n].visible)
    BY <2>8, <2>9, <2>10, Zenon
  <2> HIDE DEF n0
  <2>13. Shows(MediaLines(e, group), e, G)
    BY <2>11, <2>12, OneShown, Zenon
  <2> QED
    BY <1>6, <2>13, Zenon DEF G
<1> QED
  BY <1>4, <1>5, <1>6

\* What is so of a package's audio.
StreamsHold(j) ==
  /\ Plays(j.source, j.kept, j.known, j.lifted, j.primary, j.entries)
  /\ AllHeard(j.entries, j.tracks, j.plan)
  /\ CountsAll(j.entries, j.details.st)
  /\ \A group \in GroupsOf(j.entries) :
       Shows(MediaLines(j.entries, group), j.entries, GroupOf(j.entries, group))

\* A package of a source's audio, whichever tracks the encode carries.
LEMMA PackageHolds ==
  ASSUME NEW source \in Seq(SourceTracks), NEW dropped, NEW known \in SUBSET (1 .. SourceSize),
         NEW whitelist, NEW room, NEW lift,
         NEW kept, kept = Carried(source, dropped),
         NEW tracks, tracks = WithTrackLanguages("audio", [p \in DOMAIN kept |-> source[kept[p]]], source,
                                TrackOverrides(CatalogEntries(known, SourceSize)))
  PROVE  LET j == AudioPackage(source, kept, known, tracks, whitelist, room, lift)
         IN j.kind = "streams" /\ StreamsHold(j)
<1> DEFINE over == TrackOverrides(CatalogEntries(known, SourceSize))
           N == Len(kept)
           visible == VisibleIndices(tracks, whitelist, FALSE)
           d == PickDefaultAudio(tracks, visible, <<>>)
           plan == SurroundPlan(tracks, visible, d, "eac3")
           companions == InOrder(plan, Len(tracks))
           M == Len(companions)
           shown == ShownTracks(tracks, visible, d)
           signals == StereoSignals(shown, {-240}, room)
           marks == Marks(shown, [i \in signals |-> IF i \in lift THEN "lifted" ELSE "kept"], {-240})
           sd == PickDefaultSurround(plan, tracks, visible, d, <<>>)
           lifted == lift \cap signals
           e == AudioEntries(tracks, companions, marks, visible, d, sd)
           primary == PrimaryStreams(tracks, companions)
           stereo == StereoLoudnessOf(marks, {-240})
           j == AudioPackage(source, kept, known, tracks, whitelist, room, lift)
<1>1. N \in Nat /\ TracksTold(tracks, source, kept, known, N)
  <2>1. OverridesFor(over, known)
    BY ReadingsAssumption, CatalogOverrides
  <2> HIDE DEF over
  <2>2. Len(kept) \in Nat /\ TracksTold(WithTrackLanguages("audio", [p \in DOMAIN kept |-> source[kept[p]]], source, over),
                                         source, kept, known, Len(kept))
    BY <2>1, TracksAre, Zenon
  <2> QED
    BY <2>2, Zenon DEF over
<1> HIDE DEF over, N
<1>2. Numbered(tracks, N) /\ Len(tracks) = N /\ DOMAIN tracks = 1 .. N
  <2>1. Listing(tracks, N) /\ DOMAIN tracks = 1 .. N /\ Len(tracks) = N
    BY <1>1, Zenon DEF TracksTold
  <2> QED
    BY <1>1, <2>1 DEF Listing, Numbered, IsSource, Indices
<1>3. visible \in SUBSET (1 .. N)
  <2>1. VisibleIndices(tracks, whitelist, FALSE) \subseteq Indices(tracks)
    BY DEF VisibleIndices
  <2>2. Indices(tracks) = 1 .. N
    BY <1>2 DEF Indices
  <2> QED
    BY <2>1, <2>2
<1> HIDE DEF visible
<1>4. DefaultOf(d, visible, N)
  BY <1>1, <1>2, <1>3, AudioDefault, Zenon
<1> HIDE DEF d
<1>5. companions = InOrder(plan, N) /\ plan = SurroundPlan(tracks, visible, d, "eac3")
  BY <1>2, Zenon
<1> HIDE DEF plan, companions
<1>6. CompanionsOf(plan, companions, tracks, N)
  BY <1>1, <1>2, <1>5, PlanCompanions, Zenon
<1>7. plan \in SUBSET (1 .. N) /\ DOMAIN companions = 1 .. M /\ M \in Nat
  BY <1>6, Zenon DEF CompanionsOf
<1>8. IsCompanionDefault(sd, plan, visible)
  BY <1>1, <1>2, <1>4, <1>7, CompanionDefault, Zenon
<1> HIDE DEF sd
<1>9. shown = visible \cup ({d} \cap (1 .. N))
  BY <1>2, Zenon DEF ShownTracks
<1> HIDE DEF shown
<1>10. MarksOf(marks, shown, lifted)
  BY MarksAre, Zenon
<1> HIDE DEF signals, marks, lifted
<1>11. Settled(source, kept, known, tracks, visible, d, plan, companions, sd, marks, lifted, N, M)
  <2>1. MarksOf(marks, visible \cup ({d} \cap (1 .. N)), lifted)
    BY <1>9, <1>10
  <2> QED
    BY <1>1, <1>3, <1>4, <1>6, <1>8, <2>1, SettledIs, Zenon
<1> HIDE DEF M
<1>12. RenditionsTold(e, tracks, companions, N, M, marks, visible, d, sd)
  <2>1. EntriesTold(e, tracks, companions, N, M, marks, visible, d, sd)
    BY <1>1, <1>2, <1>7, EntriesOf, Zenon
  <2> HIDE DEF e
  <2> QED
    BY <2>1, RenditionsOf, Zenon
<1>13. StreamsAre(primary, companions, N, M)
  BY <1>1, <1>2, <1>7, StreamsOf, Zenon
<1> HIDE DEF e, primary
<1>14. Plays(source, kept, known, lifted, primary, e)
  BY <1>11, <1>12, <1>13, RenditionsPlay, Zenon
<1>15. AllHeard(e, tracks, plan)
  BY <1>11, <1>12, EachHeard, Zenon
<1>16. CountsAll(e, stereo)
  <2>1. ASSUME NEW target  PROVE CountsAll(e, StereoLoudnessOf(marks, target))
    BY <1>11, <1>12, EachCounted, Zenon
  <2> QED
    BY <2>1 DEF stereo
<1>17. \A group \in GroupsOf(e) : Shows(MediaLines(e, group), e, GroupOf(e, group))
  BY <1>11, <1>12, EachShows, Zenon
<1> HIDE DEF stereo
<1>18. j = [kind |-> "streams", source |-> source, kept |-> kept, known |-> known, tracks |-> tracks,
            lifted |-> lifted, plan |-> plan, primary |-> primary, entries |-> e, details |-> Details(e, stereo)]
  BY Zenon DEF AudioPackage, visible, d, plan, companions, shown, signals, marks, sd, lifted, e, primary, stereo
<1> HIDE DEF j
<1>19. /\ j.kind = "streams" /\ j.source = source /\ j.kept = kept /\ j.known = known /\ j.tracks = tracks
       /\ j.lifted = lifted /\ j.plan = plan /\ j.primary = primary /\ j.entries = e
       /\ j.details.st = stereo
  <2>1. Details(e, stereo).st = stereo
    BY DEF Details
  <2>2. j.details = Details(e, stereo)
    BY <1>18
  <2>3. /\ j.kind = "streams" /\ j.source = source /\ j.kept = kept /\ j.known = known /\ j.tracks = tracks
        /\ j.lifted = lifted /\ j.plan = plan /\ j.primary = primary /\ j.entries = e
    BY <1>18
  <2> QED
    BY <2>1, <2>2, <2>3
<1>20. j.kind = "streams" /\ StreamsHold(j)
  BY <1>14, <1>15, <1>16, <1>17, <1>19, Zenon DEF StreamsHold
<1> QED
  BY <1>20 DEF j

\* A sequence of tracks is one.
LEMMA StreamsJob ==
  ASSUME PackageAudio
  PROVE  job'.kind = "streams" /\ StreamsHold(job')
<1>1. PICK source \in UpTo(SourceSize, SourceTracks), dropped \in {{}, {"truehd"}},
           known \in SUBSET (1 .. SourceSize) :
        \E kept \in {Carried(source, dropped)} :
        \E tracks \in {WithTrackLanguages("audio", [p \in DOMAIN kept |-> source[kept[p]]], source,
                         TrackOverrides([k \in 1 .. SourceSize |->
                           [kind |-> "audio", ordinal |-> k, lang |-> CatalogLanguage(k), valid |-> k \in known]]))} :
        \E whitelist \in {{}, {"en"}}, room \in {1, SourceSize}, lift \in SUBSET DOMAIN kept :
          job' = AudioPackage(source, kept, known, tracks, whitelist, room, lift)
  BY Zenon DEF PackageAudio
<1> DEFINE kept == Carried(source, dropped)
           tracks == WithTrackLanguages("audio", [p \in DOMAIN kept |-> source[kept[p]]], source,
                       TrackOverrides(CatalogEntries(known, SourceSize)))
<1>2. PICK whitelist, room, lift : job' = AudioPackage(source, kept, known, tracks, whitelist, room, lift)
  BY <1>1, Zenon DEF CatalogEntries
<1>3. source \in Seq(SourceTracks)
  <2>1. PICK n \in 0 .. SourceSize : source \in [1 .. n -> SourceTracks]
    BY DEF UpTo
  <2> QED
    BY <2>1, ReadingsAssumption
<1> HIDE DEF kept, tracks
<1>4. kept = Carried(source, dropped)
  BY DEF kept
<1>5. tracks = WithTrackLanguages("audio", [p \in DOMAIN kept |-> source[kept[p]]], source,
                 TrackOverrides(CatalogEntries(known, SourceSize)))
  BY Zenon DEF tracks
<1> DEFINE j == AudioPackage(source, kept, known, tracks, whitelist, room, lift)
<1>6. j.kind = "streams" /\ StreamsHold(j)
  BY <1>3, <1>4, <1>5, PackageHolds, Zenon
<1> QED
  BY <1>2, <1>6, Zenon

\* That is what the property says.
LEMMA StreamsSay ==
  (job.kind = "streams" => StreamsHold(job)) => StreamsLineUp
<1> SUFFICES ASSUME job.kind = "streams", StreamsHold(job)  PROVE StreamsLineUp
  BY Zenon DEF StreamsLineUp
<1> DEFINE e == job.entries
<1>1. \A n \in DOMAIN e :
        /\ PackagedFrom(job.primary, e, n).track = e[n].idx
        /\ PackagedFrom(job.primary, e, n).mix = (IF e[n].group # "audio" THEN "surround"
                                                  ELSE IF e[n].idx \in job.lifted THEN "lifted" ELSE "stereo")
        /\ e[n].lang = (IF job.kept[e[n].idx] \in job.known THEN CatalogLanguage(job.kept[e[n].idx]) ELSE "und")
        /\ e[n].purpose = AudioPurpose(job.source[job.kept[e[n].idx]])
        /\ e[n].group = "audio-surround" => job.source[job.kept[e[n].idx]].ch > 2
  BY Zenon DEF StreamsHold, Plays
<1>2. /\ {e[n].idx : n \in {k \in DOMAIN e : e[k].group = "audio"}} = DOMAIN job.tracks
      /\ {e[n].idx : n \in {k \in DOMAIN e : e[k].group = "audio-surround"}} = job.plan
      /\ Len(e) = Len(job.tracks) + Cardinality(job.plan)
  BY Zenon DEF StreamsHold, AllHeard, GroupOf
<1>3. /\ job.details.st.lifted = Cardinality({n \in DOMAIN e : e[n].own})
      /\ job.details.st.lifted + job.details.st.kept + job.details.st.skipped =
           Cardinality({n \in DOMAIN e : e[n].group = "audio" /\ (e[n].visible \/ e[n].default)})
  BY Zenon DEF StreamsHold, CountsAll
<1>4. \A group \in GroupsOf(e) :
        LET lines == MediaLines(e, group)
            shows == {p \in DOMAIN lines : lines[p].default}
        IN /\ {lines[p].n : p \in DOMAIN lines} = {n \in DOMAIN e : e[n].group = group}
           /\ Cardinality(shows) = 1 /\ \A p \in shows : lines[p].autoselect
           /\ \A p \in shows : ~ e[lines[p].n].visible =>
                \A n \in {lines[q].n : q \in DOMAIN lines} : ~ e[n].visible
  BY Zenon DEF StreamsHold, Shows, GroupOf
<1> QED
  BY <1>1, <1>2, <1>3, <1>4, Zenon DEF StreamsLineUp

\* Every step leaves it so.
LEMMA StreamsLeave ==
  ASSUME Next
  PROVE  (job.kind = "streams" => StreamsHold(job))'
<1>1. CASE PackageAudio
  BY <1>1, StreamsJob
<1>2. CASE ~ PackageAudio
  <2>1. job'.kind # "streams"
    BY <1>2, PlanKinds, ReadingKinds, WritingKinds, LaterKinds DEF Next, Reading, Writing
  <2> QED
    BY <2>1
<1> QED
  BY <1>1, <1>2

\* THEOREM: every rendition of a package plays what its entry says, none of
\* the tracks is missing or there twice, each that is shown is counted once,
\* and each group shows one default (_with_track_languages, _prepare_source,
\* _run_shaka_packager, build_master, _stereo_loudness_of).
THEOREM StreamsAlwaysLineUp == Spec => []StreamsLineUp
<1> DEFINE told == job.kind = "streams" => StreamsHold(job)
<1>1. Init => told
  BY DEF Init
<1>2. told /\ [Next]_job => told'
  <2> SUFFICES ASSUME told, [Next]_job  PROVE told'
    OBVIOUS
  <2>1. CASE UNCHANGED job
    BY <2>1, Zenon
  <2>2. CASE Next
    BY <2>2, StreamsLeave
  <2> QED
    BY <2>1, <2>2
<1>3. told => StreamsLineUp
  BY StreamsSay
<1> QED
  BY <1>1, <1>2, <1>3, PTL DEF Spec

(***************************************************************************)
(* The master of a package.                                                *)
(***************************************************************************)

\* A set that has at most one element.
LEMMA OneAtMost ==
  ASSUME NEW S, \A x, y \in S : x = y
  PROVE  Cardinality(S) <= 1
<1>1. CASE S = {}
  <2>1. Cardinality(S) = 0
    BY <1>1, FS_EmptySet
  <2> QED
    BY <2>1
<1>2. CASE S # {}
  <2>1. PICK x \in S : TRUE
    BY <1>2
  <2>2. S = {x}
    BY <2>1
  <2>3. Cardinality(S) = 1
    BY <2>2, FS_Singleton
  <2> QED
    BY <2>3
<1> QED
  BY <1>1, <1>2

\* Renditions in their order: all of them, in the languages their places had,
\* the main ones of a language first.
InOrderOf(m, o, main) ==
  /\ {o[p] : p \in DOMAIN m} = DOMAIN m
  /\ \A p \in DOMAIN m : m[o[p]].lang = m[p].lang
  /\ \A p, q \in DOMAIN m : p < q /\ m[p].lang = m[q].lang =>
       /\ m[o[q]].purpose = main => m[o[p]].purpose = main
       /\ (m[o[p]].purpose = main) = (m[o[q]].purpose = main) => o[p] < o[q]

\* MainFirst puts them so.
LEMMA RenditionsInOrder ==
  ASSUME NEW N \in Nat, NEW m, DOMAIN m = 1 .. N, NEW main
  PROVE  /\ InOrderOf(m, MasterOrder(m, main), main)
         /\ \A p, q \in 1 .. N : MasterOrder(m, main)[p] = MasterOrder(m, main)[q] => p = q
         /\ \A p \in 1 .. N : MasterOrder(m, main)[p] \in 1 .. N
<1> DEFINE langs == [i \in DOMAIN m |-> m[i].lang]
           mains == [i \in DOMAIN m |-> m[i].purpose = main]
           o == MasterOrder(m, main)
<1>1. o = MainFirst(langs, mains)
  BY Zenon DEF MasterOrder
<1>2. /\ DOMAIN langs = 1 .. N
      /\ \A i \in 1 .. N : langs[i] = m[i].lang /\ mains[i] = (m[i].purpose = main)
  OBVIOUS
<1> HIDE DEF langs, mains, o
<1>3. \A i \in 1 .. N : mains[i] \in BOOLEAN
  BY <1>2
<1>4. Shuffled(o, langs, mains, N)
  BY <1>1, <1>2, <1>3, MainFirstIs, Zenon
<1>5. /\ \A p \in 1 .. N : o[p] \in 1 .. N /\ langs[o[p]] = langs[p]
      /\ \A p, q \in 1 .. N : o[p] = o[q] => p = q
      /\ \A i \in 1 .. N : \E p \in 1 .. N : o[p] = i
      /\ \A p, q \in 1 .. N : p < q /\ langs[p] = langs[q] =>
           /\ mains[o[q]] => mains[o[p]]
           /\ mains[o[p]] = mains[o[q]] => o[p] < o[q]
  BY <1>4, Zenon DEF Shuffled
<1>6. {o[p] : p \in DOMAIN m} = DOMAIN m
  <2>1. \A x \in {o[p] : p \in 1 .. N} : x \in 1 .. N
    <3>1. \A p \in 1 .. N : o[p] \in 1 .. N
      BY <1>5, Zenon
    <3> QED
      BY <3>1
  <2>2. \A x \in 1 .. N : x \in {o[p] : p \in 1 .. N}
    BY <1>5, Zenon
  <2>3. {o[p] : p \in 1 .. N} = 1 .. N
    BY <2>1, <2>2, Zenon
  <2> QED
    BY <2>3, Zenon
<1>7. \A p \in DOMAIN m : m[o[p]].lang = m[p].lang
  BY <1>2, <1>5, Zenon
<1>8. \A p, q \in DOMAIN m : p < q /\ m[p].lang = m[q].lang =>
        /\ m[o[q]].purpose = main => m[o[p]].purpose = main
        /\ (m[o[p]].purpose = main) = (m[o[q]].purpose = main) => o[p] < o[q]
  <2> SUFFICES ASSUME NEW p \in 1 .. N, NEW q \in 1 .. N, p < q, m[p].lang = m[q].lang
               PROVE  /\ m[o[q]].purpose = main => m[o[p]].purpose = main
                      /\ (m[o[p]].purpose = main) = (m[o[q]].purpose = main) => o[p] < o[q]
    OBVIOUS
  <2>1. /\ mains[o[q]] => mains[o[p]]
        /\ mains[o[p]] = mains[o[q]] => o[p] < o[q]
    BY <1>2, <1>5, Zenon
  <2>2. mains[o[p]] = (m[o[p]].purpose = main) /\ mains[o[q]] = (m[o[q]].purpose = main)
    BY <1>2, <1>5, Zenon
  <2> QED
    BY <2>1, <2>2, Zenon
<1> QED
  BY <1>5, <1>6, <1>7, <1>8, Zenon DEF InOrderOf, o

\* Those of a language that a player may take by itself, the full ones.
Picked(m, auto, l) ==
  {i \in DOMAIN m : /\ m[i].lang = l /\ auto[i] /\ ~ m[i].forced
                    /\ m[i].purpose \notin {"sdh", "description"}}

\* Of a language's main renditions the first offered one, by the order, is
\* taken, and one full rendition at most.
AudioPicks(m, o, auto) ==
  /\ \A l : Cardinality(Picked(m, auto, l)) <= 1
  /\ \A p \in DOMAIN m : m[o[p]].purpose = "main" =>
       auto[o[p]] = (/\ m[o[p]].purpose = "main" /\ m[o[p]].visible
                     /\ ~ \E q \in 1 .. p - 1 : /\ m[o[q]].purpose = "main" /\ m[o[q]].visible
                                                /\ m[o[q]].lang = m[o[p]].lang)

\* An audio group is picked of so.
LEMMA AudioPicked ==
  ASSUME NEW N \in Nat, NEW m, DOMAIN m = 1 .. N, NEW o, InOrderOf(m, o, "main"),
         \A p \in 1 .. N : o[p] \in 1 .. N
  PROVE  AudioPicks(m, o, AudioAutoselect(m))
<1> DEFINE auto == AudioAutoselect(m)
           Before(i, j) == m[j].visible /\ m[j].purpose = "main" /\ m[j].lang = m[i].lang
<1>1. \A i \in 1 .. N : auto[i] = (/\ m[i].visible
                                   /\ \/ m[i].purpose = "description"
                                      \/ m[i].purpose = "main" /\ ~ \E j \in 1 .. i - 1 : Before(i, j))
  BY DEF AudioAutoselect
<1> HIDE DEF auto
<1>2. ASSUME NEW l  PROVE Cardinality(Picked(m, auto, l)) <= 1
  <2>1. ASSUME NEW i \in Picked(m, auto, l)
        PROVE  /\ i \in 1 .. N /\ m[i].lang = l /\ m[i].visible /\ m[i].purpose = "main"
               /\ ~ \E j \in 1 .. i - 1 : Before(i, j)
    <3>1. i \in 1 .. N /\ m[i].lang = l /\ auto[i] /\ m[i].purpose # "description"
      BY DEF Picked
    <3> HIDE DEF Before
    <3> QED
      BY <1>1, <3>1, Zenon
  <2>2. \A i, j \in Picked(m, auto, l) : ~ (j < i)
    <3> SUFFICES ASSUME NEW i \in Picked(m, auto, l), NEW j \in Picked(m, auto, l), j < i  PROVE FALSE
      OBVIOUS
    <3>1. i \in 1 .. N /\ j \in 1 .. N
      BY <2>1
    <3>2. j \in 1 .. i - 1
      BY <3>1
    <3>3. Before(i, j)
      BY <2>1, Zenon
    <3> QED
      BY <2>1, <3>2, <3>3
  <2>3. \A i, j \in Picked(m, auto, l) : i = j
    BY <2>1, <2>2
  <2> QED
    BY <2>3, OneAtMost
<1>3. ASSUME NEW p \in 1 .. N, m[o[p]].purpose = "main"
      PROVE  auto[o[p]] = (/\ m[o[p]].purpose = "main" /\ m[o[p]].visible
                           /\ ~ \E q \in 1 .. p - 1 : /\ m[o[q]].purpose = "main" /\ m[o[q]].visible
                                                      /\ m[o[q]].lang = m[o[p]].lang)
  <2> DEFINE i == o[p]
  <2>1. i \in 1 .. N /\ m[i].purpose = "main"
    BY <1>3
  <2>2. ASSUME NEW q \in 1 .. p - 1, m[o[q]].purpose = "main", m[o[q]].visible, m[o[q]].lang = m[i].lang
        PROVE  \E j \in 1 .. i - 1 : Before(i, j)
    <3>1. q \in 1 .. N /\ q < p /\ o[q] \in 1 .. N
      OBVIOUS
    <3>2. m[q].lang = m[p].lang
      BY <2>2, <3>1, Zenon DEF InOrderOf
    <3>3. o[q] < o[p]
      BY <1>3, <2>2, <3>1, <3>2, Zenon DEF InOrderOf
    <3>4. o[q] \in 1 .. i - 1
      BY <2>1, <3>1, <3>3
    <3> QED
      BY <2>2, <3>4, Zenon
  <2>3. ASSUME NEW j \in 1 .. i - 1, Before(i, j)
        PROVE  \E q \in 1 .. p - 1 : /\ m[o[q]].purpose = "main" /\ m[o[q]].visible /\ m[o[q]].lang = m[i].lang
    <3>1. j \in 1 .. N /\ j < i
      BY <2>1
    <3>2. PICK q \in 1 .. N : o[q] = j
      <4>1. j \in {o[q] : q \in DOMAIN m}
        BY <3>1 DEF InOrderOf
      <4> QED
        BY <4>1
    <3>3. m[q].lang = m[p].lang
      BY <2>3, <3>2, Zenon DEF InOrderOf
    <3>4. ~ (p < q)
      <4>1. p < q => o[p] < o[q]
        BY <1>3, <2>3, <3>2, <3>3, Zenon DEF InOrderOf
      <4> QED
        BY <2>1, <3>1, <3>2, <4>1
    <3>5. p # q
      BY <3>1, <3>2, <2>1
    <3>6. q \in 1 .. p - 1
      BY <3>4, <3>5
    <3> QED
      BY <2>3, <3>2, <3>6, Zenon
  <2>4. auto[i] = (/\ m[i].visible
                   /\ \/ m[i].purpose = "description"
                      \/ m[i].purpose = "main" /\ ~ \E j \in 1 .. i - 1 : Before(i, j))
    BY <1>1, <2>1, Zenon
  <2> HIDE DEF Before, i
  <2>5. (\E j \in 1 .. i - 1 : Before(i, j))
          <=> \E q \in 1 .. p - 1 : m[o[q]].purpose = "main" /\ m[o[q]].visible /\ m[o[q]].lang = m[i].lang
    BY <2>2, <2>3, Zenon
  <2>6. auto[i] = (m[i].visible /\ ~ \E j \in 1 .. i - 1 : Before(i, j))
    BY <2>1, <2>4
  <2> QED
    BY <2>1, <2>5, <2>6 DEF i
<1> QED
  BY <1>2, <1>3, Zenon DEF AudioPicks, auto

\* A number is taken off the end of a name as it was put there.
LEMMA NumberOff ==
  ASSUME NEW s, NEW c, \E a : s = <<a>> \/ s = <<a, 2>>
  PROVE  /\ NumberedAs(Append(s, c), s) /\ Front(Append(s, c)) = s
         /\ Append(s, c)[Len(Append(s, c))] = c
<1>1. PICK a : s = <<a>> \/ s = <<a, 2>>
  OBVIOUS
<1> DEFINE S == {a, 2, c}  t == Append(s, c)  f == SubSeq(t, 1, Len(s))
<1>2. s \in Seq(S) /\ Len(s) > 0 /\ c \in S
  <2>1. a \in S /\ 2 \in S /\ c \in S
    OBVIOUS
  <2> HIDE DEF S
  <2>2. <<a>> \in Seq(S) /\ Len(<<a>>) > 0
    BY <2>1
  <2>3. <<a, 2>> \in Seq(S) /\ Len(<<a, 2>>) > 0
    BY <2>1
  <2> QED
    BY <1>1, <2>1, <2>2, <2>3, Zenon
<1> HIDE DEF S
<1>3. /\ t \in Seq(S) /\ Len(t) = Len(s) + 1 /\ t[Len(s) + 1] = c
      /\ \A i \in 1 .. Len(s) : t[i] = s[i]
  BY <1>2
<1> HIDE DEF t
<1>4. f \in Seq(S) /\ Len(f) = Len(s) /\ \A i \in 1 .. Len(s) : f[i] = s[i]
  BY <1>2, <1>3
<1> HIDE DEF f
<1>5. f = s
  BY <1>2, <1>4
<1>6. Front(t) = f
  <2>1. Len(t) - 1 = Len(s)
    BY <1>2, <1>3
  <2> QED
    BY <2>1, Zenon DEF Front, f
<1>7. Len(t) > 1 /\ t[Len(t)] = c
  BY <1>2, <1>3
<1> QED
  BY <1>5, <1>6, <1>7, Zenon DEF NumberedAs, t

\* The names of a group tell its renditions apart, but for one that was given
\* what another becomes.
LEMMA NamesApart ==
  ASSUME NEW N \in Nat, NEW base, DOMAIN base = 1 .. N,
         \A i \in 1 .. N : \E a : base[i] = <<a>> \/ base[i] = <<a, 2>>
  PROVE  LET names == UniqueNames(base)
         IN \A i, j \in 1 .. N : names[i] = names[j] =>
              i = j \/ NumberedAs(base[i], base[j]) \/ NumberedAs(base[j], base[i])
<1> DEFINE names == UniqueNames(base)
           so(i) == {j \in 1 .. i : base[j] = base[i]}
           n(i) == Cardinality(so(i))
           long(i) == Append(base[i], n(i))
<1>1. \A i \in 1 .. N : names[i] = IF n(i) = 1 THEN base[i] ELSE long(i)
  BY DEF UniqueNames
<1>2. \A i \in 1 .. N : NumberedAs(long(i), base[i]) /\ Front(long(i)) = base[i] /\ long(i)[Len(long(i))] = n(i)
  <2> TAKE i \in 1 .. N
  <2> DEFINE b == base[i]  c == n(i)
  <2>1. \E a : b = <<a>> \/ b = <<a, 2>>
    OBVIOUS
  <2> HIDE DEF b, c
  <2>2. NumberedAs(Append(b, c), b) /\ Front(Append(b, c)) = b /\ Append(b, c)[Len(Append(b, c))] = c
    BY <2>1, NumberOff
  <2> QED
    BY <2>2, Zenon DEF b, c
<1> HIDE DEF names
<1>3. ASSUME NEW i \in 1 .. N  PROVE IsFiniteSet(so(i)) /\ n(i) \in Nat
  <2>1. IsFiniteSet(1 .. i)
    BY FS_Interval
  <2>2. IsFiniteSet(so(i))
    BY <2>1, FS_Subset
  <2> QED
    BY <2>2, FS_CardinalityType
<1>4. ASSUME NEW i \in 1 .. N, NEW j \in 1 .. N, i < j, base[i] = base[j]  PROVE n(i) # n(j)
  <2>1. so(i) \in SUBSET so(j) /\ j \in so(j) /\ j \notin so(i)
    BY <1>4
  <2>2. so(i) # so(j)
    BY <2>1
  <2> HIDE DEF so
  <2> QED
    BY <1>3, <2>1, <2>2, FS_Subset
<1> HIDE DEF n, long
<1>5. ASSUME NEW i \in 1 .. N, NEW j \in 1 .. N, names[i] = names[j]
      PROVE  i = j \/ NumberedAs(base[i], base[j]) \/ NumberedAs(base[j], base[i])
  <2>1. CASE n(i) = 1 /\ n(j) = 1
    <3>1. base[i] = base[j]
      BY <1>1, <1>5, <2>1, Zenon
    <3> QED
      BY <1>4, <2>1, <3>1
  <2>2. CASE n(i) = 1 /\ n(j) # 1
    <3>1. base[i] = long(j)
      BY <1>1, <1>5, <2>2, Zenon
    <3> QED
      BY <1>2, <3>1, Zenon
  <2>3. CASE n(i) # 1 /\ n(j) = 1
    <3>1. base[j] = long(i)
      BY <1>1, <1>5, <2>3, Zenon
    <3> QED
      BY <1>2, <3>1, Zenon
  <2>4. CASE n(i) # 1 /\ n(j) # 1
    <3>1. long(i) = long(j)
      BY <1>1, <1>5, <2>4, Zenon
    <3>2. base[i] = base[j] /\ n(i) = n(j)
      BY <1>2, <3>1, Zenon
    <3> QED
      BY <1>4, <3>2
  <2> QED
    BY <2>1, <2>2, <2>3, <2>4
<1> QED
  BY <1>5 DEF names

\* Of the subtitles of a language one full one is taken by itself, and the
\* one that is shown is forced, and in no other language than the film's.
LEMMA SubtitlesPicked ==
  ASSUME NEW N \in Nat, NEW m, DOMAIN m = 1 .. N,
         \A i \in 1 .. N : m[i].visible /\ m[i].forced = (m[i].purpose = "forced"), NEW audio
  PROVE  LET auto == SubtitleAutoselect(m)
             default == PickDefaultSubtitle(m, audio)
         IN /\ \A l : Cardinality(Picked(m, auto, l)) <= 1
            /\ default # 0 => /\ m[default].forced /\ auto[default]
                              /\ audio \notin NoLanguage => m[default].lang \in NoLanguage \cup {audio}
<1> DEFINE auto == SubtitleAutoselect(m)
           default == PickDefaultSubtitle(m, audio)
           counts(j) == m[j].purpose \notin {"sdh", "commentary"}
           Same(i, j) == counts(j) /\ m[j].lang = m[i].lang /\ m[j].forced = m[i].forced
<1>1. \A i \in 1 .. N : auto[i] = (\/ m[i].purpose = "sdh"
                                   \/ /\ counts(i)
                                      /\ m[i].forced \/ ~ \E j \in 1 .. i - 1 : Same(i, j))
  BY DEF SubtitleAutoselect
<1> HIDE DEF auto
<1>2. ASSUME NEW l  PROVE Cardinality(Picked(m, auto, l)) <= 1
  <2>1. ASSUME NEW i \in Picked(m, auto, l)
        PROVE  /\ i \in 1 .. N /\ m[i].lang = l /\ ~ m[i].forced /\ counts(i)
               /\ ~ \E j \in 1 .. i - 1 : Same(i, j)
    <3>1. i \in 1 .. N /\ m[i].lang = l /\ auto[i] /\ ~ m[i].forced /\ m[i].purpose # "sdh"
      BY DEF Picked
    <3> HIDE DEF counts, Same
    <3> QED
      BY <1>1, <3>1, Zenon
  <2>2. ASSUME NEW i \in Picked(m, auto, l), NEW j \in Picked(m, auto, l), j < i  PROVE FALSE
    <3>1. i \in 1 .. N /\ j \in 1 .. N
      BY <2>1
    <3>2. j \in 1 .. i - 1
      BY <2>2, <3>1
    <3>3. m[j].forced = FALSE /\ m[i].forced = FALSE
      <4>1. m[i].forced = (m[i].purpose = "forced") /\ m[j].forced = (m[j].purpose = "forced")
        BY <3>1, Zenon
      <4> QED
        BY <2>1, <4>1
    <3>4. Same(i, j)
      BY <2>1, <3>3, Zenon
    <3> QED
      BY <2>1, <3>2, <3>4
  <2>3. \A i, j \in Picked(m, auto, l) : i \in Int /\ j \in Int
    BY <2>1
  <2>4. \A i, j \in Picked(m, auto, l) : i = j
    BY <2>2, <2>3
  <2> QED
    BY <2>4, OneAtMost
<1>3. ASSUME default # 0
      PROVE  /\ m[default].forced /\ auto[default]
             /\ audio \notin NoLanguage => m[default].lang \in NoLanguage \cup {audio}
  <2> DEFINE forced == {i \in DOMAIN m : m[i].forced /\ m[i].visible}
             same == {i \in forced : m[i].lang = audio}
             unknown == {i \in forced : m[i].lang \in NoLanguage}
             first(S) == IF S = {} THEN 0 ELSE CHOOSE i \in S : \A j \in S : i <= j
  <2>1. default = IF audio \in NoLanguage THEN first(forced)
                  ELSE IF same # {} THEN first(same) ELSE first(unknown)
    BY Zenon DEF PickDefaultSubtitle
  <2>2. ASSUME NEW S \in SUBSET (1 .. N), first(S) # 0  PROVE first(S) \in S
    <3>1. S # {} /\ first(S) = CHOOSE i \in S : \A j \in S : i <= j
      BY <2>2, Zenon
    <3>2. S \subseteq Nat
      OBVIOUS
    <3> HIDE DEF first
    <3> QED
      BY <3>1, <3>2, LeastNumber
  <2>3. forced \in SUBSET (1 .. N) /\ same \in SUBSET (1 .. N) /\ unknown \in SUBSET (1 .. N)
    OBVIOUS
  <2> HIDE DEF first, default
  <2>4. /\ default \in forced
        /\ audio \notin NoLanguage => default \in same \/ default \in unknown
    <3>1. CASE audio \in NoLanguage
      BY <1>3, <2>1, <2>2, <2>3, <3>1, Zenon
    <3>2. CASE audio \notin NoLanguage /\ same # {}
      <4>1. default \in same
        BY <1>3, <2>1, <2>2, <2>3, <3>2, Zenon
      <4> QED
        BY <4>1, <3>2
    <3>3. CASE audio \notin NoLanguage /\ same = {}
      <4>1. default \in unknown
        BY <1>3, <2>1, <2>2, <2>3, <3>3, Zenon
      <4> QED
        BY <4>1, <3>3
    <3> QED
      BY <3>1, <3>2, <3>3
  <2>5. default \in 1 .. N /\ m[default].forced
    BY <2>4
  <2>6. auto[default]
    <3>1. m[default].purpose = "forced"
      BY <2>5, Zenon
    <3>2. counts(default)
      BY <3>1
    <3> HIDE DEF counts, Same
    <3> QED
      BY <1>1, <2>5, <3>2, Zenon
  <2>7. audio \notin NoLanguage => m[default].lang \in NoLanguage \cup {audio}
    BY <2>4
  <2> QED
    BY <2>5, <2>6, <2>7
<1> QED
  BY <1>2, <1>3 DEF auto, default

\* A group in its order, or the subtitles in theirs.
GroupHolds(j) ==
  /\ InOrderOf(j.metas, j.order, "main")
  /\ AudioPicks(j.metas, j.order, j.autoselect)
  /\ \A i, k \in DOMAIN j.metas : j.names[i] = j.names[k] =>
       i = k \/ NumberedAs(j.given[i], j.given[k]) \/ NumberedAs(j.given[k], j.given[i])

SubtitlesHold(j) ==
  /\ InOrderOf(j.metas, j.order, "dialogue")
  /\ \A l : Cardinality(Picked(j.metas, j.autoselect, l)) <= 1
  /\ j.default # 0 => /\ j.metas[j.default].forced /\ j.autoselect[j.default]
                      /\ j.audio \notin NoLanguage => j.metas[j.default].lang \in NoLanguage \cup {j.audio}

\* What is written of either is so.
LEMMA OrderJob ==
  /\ WriteGroup => job'.kind = "group" /\ GroupHolds(job')
  /\ WriteSubtitles => job'.kind = "subtitles" /\ SubtitlesHold(job')
<1>1. ASSUME WriteGroup  PROVE job'.kind = "group" /\ GroupHolds(job')
  <2> PICK metas \in UpTo(MaxTracks + 1, AudioGroup) : \E numbered \in {0} \cup DOMAIN metas :
          job' = [kind |-> "group", metas |-> metas, autoselect |-> AudioAutoselect(metas),
                  order |-> MasterOrder(metas, "main"), given |-> GivenNames(metas, numbered),
                  names |-> UniqueNames(GivenNames(metas, numbered))]
    BY <1>1, Zenon DEF WriteGroup
  <2>1. PICK numbered \in {0} \cup DOMAIN metas :
          job' = [kind |-> "group", metas |-> metas, autoselect |-> AudioAutoselect(metas),
                  order |-> MasterOrder(metas, "main"), given |-> GivenNames(metas, numbered),
                  names |-> UniqueNames(GivenNames(metas, numbered))]
    OBVIOUS
  <2>2. PICK N \in Nat : DOMAIN metas = 1 .. N
    BY PlansAssumption DEF UpTo
  <2> DEFINE o == MasterOrder(metas, "main")
             auto == AudioAutoselect(metas)
             given == GivenNames(metas, numbered)
             names == UniqueNames(given)
  <2>3. /\ job'.kind = "group" /\ job'.metas = metas /\ job'.autoselect = auto
        /\ job'.order = o /\ job'.given = given /\ job'.names = names
    BY <2>1
  <2>4. InOrderOf(metas, o, "main") /\ \A p \in 1 .. N : o[p] \in 1 .. N
    BY <2>2, RenditionsInOrder
  <2>5. \A i, j \in DOMAIN metas : names[i] = names[j] =>
          i = j \/ NumberedAs(given[i], given[j]) \/ NumberedAs(given[j], given[i])
    <3>1. DOMAIN given = 1 .. N /\ \A i \in 1 .. N : given[i] = <<metas[i].lang>> \/ given[i] = <<metas[i].lang, 2>>
      BY <2>2 DEF GivenNames
    <3> HIDE DEF given
    <3> QED
      BY <2>2, <3>1, NamesApart, Zenon
  <2>6. AudioPicks(metas, o, auto)
    <3> HIDE DEF o
    <3> QED
      BY <2>2, <2>4, AudioPicked, Zenon
  <2> HIDE DEF o, auto, given, names
  <2> QED
    BY <2>3, <2>4, <2>5, <2>6, Zenon DEF GroupHolds
<1>2. ASSUME WriteSubtitles  PROVE job'.kind = "subtitles" /\ SubtitlesHold(job')
  <2>1. PICK metas \in UpTo(MaxTracks, SubtitleGroup), audio \in Tags :
          job' = [kind |-> "subtitles", metas |-> metas, audio |-> audio,
                  autoselect |-> SubtitleAutoselect(metas), order |-> MasterOrder(metas, "dialogue"),
                  default |-> PickDefaultSubtitle(metas, audio)]
    BY <1>2 DEF WriteSubtitles
  <2>2. \A row \in SubtitleGroup : row.visible /\ row.forced = (row.purpose = "forced")
    BY DEF Rendition, SubtitleGroup
  <2>3. PICK N \in Nat : DOMAIN metas = 1 .. N /\ \A i \in 1 .. N : metas[i] \in SubtitleGroup
    BY PlansAssumption DEF UpTo
  <2>4. \A i \in 1 .. N : metas[i].visible /\ metas[i].forced = (metas[i].purpose = "forced")
    BY <2>2, <2>3, Zenon
  <2> DEFINE o == MasterOrder(metas, "dialogue")
             auto == SubtitleAutoselect(metas)
             default == PickDefaultSubtitle(metas, audio)
  <2>5. /\ job'.kind = "subtitles" /\ job'.metas = metas /\ job'.autoselect = auto
        /\ job'.order = o /\ job'.audio = audio /\ job'.default = default
    BY <2>1
  <2>6. InOrderOf(metas, o, "dialogue")
    BY <2>3, RenditionsInOrder
  <2>7. /\ \A l : Cardinality(Picked(metas, auto, l)) <= 1
        /\ default # 0 => /\ metas[default].forced /\ auto[default]
                          /\ audio \notin NoLanguage => metas[default].lang \in NoLanguage \cup {audio}
    BY <2>3, <2>4, SubtitlesPicked
  <2> HIDE DEF o, auto, default
  <2> QED
    BY <2>5, <2>6, <2>7, Zenon DEF SubtitlesHold
<1> QED
  BY <1>1, <1>2

\* That is what the property says of them.
LEMMA OrderSays ==
  ASSUME job.kind = "group" => GroupHolds(job), job.kind = "subtitles" => SubtitlesHold(job)
  PROVE  MasterInOrder
<1> DEFINE m == job.metas
           o == job.order
           main(i) == m[i].purpose = (IF job.kind = "group" THEN "main" ELSE "dialogue")
           leads(p) == /\ main(o[p]) /\ m[o[p]].visible
                       /\ ~ \E q \in 1 .. p - 1 : /\ main(o[q]) /\ m[o[q]].visible
                                                  /\ m[o[q]].lang = m[o[p]].lang
           picked(l) == {i \in DOMAIN m : /\ m[i].lang = l /\ job.autoselect[i] /\ ~ m[i].forced
                                          /\ m[i].purpose \notin {"sdh", "description"}}
           Body == /\ {o[p] : p \in DOMAIN m} = DOMAIN m
                   /\ \A p \in DOMAIN m : m[o[p]].lang = m[p].lang
                   /\ \A p, q \in DOMAIN m : p < q /\ m[p].lang = m[q].lang =>
                        /\ main(o[q]) => main(o[p])
                        /\ main(o[p]) = main(o[q]) => o[p] < o[q]
                   /\ \A p \in DOMAIN m : Cardinality(picked(m[p].lang)) <= 1
                   /\ job.kind = "group" =>
                        /\ \A p \in DOMAIN m : main(o[p]) => job.autoselect[o[p]] = leads(p)
                        /\ \A i, j \in DOMAIN m : job.names[i] = job.names[j] =>
                             \/ i = j
                             \/ NumberedAs(job.given[i], job.given[j])
                             \/ NumberedAs(job.given[j], job.given[i])
                   /\ job.kind = "subtitles" /\ job.default # 0 =>
                        /\ m[job.default].forced /\ job.autoselect[job.default]
                        /\ job.audio \notin NoLanguage => m[job.default].lang \in NoLanguage \cup {job.audio}
<1>1. \A l : picked(l) = Picked(m, job.autoselect, l)
  BY Zenon DEF Picked
<1>2. CASE job.kind = "group"
  <2>1. \A i : main(i) = (m[i].purpose = "main")
    BY <1>2
  <2>2. "group" # "subtitles"
    OBVIOUS
  <2>3. GroupHolds(job)
    BY <1>2
  <2> HIDE DEF main, picked
  <2>4. /\ {o[p] : p \in DOMAIN m} = DOMAIN m
        /\ \A p \in DOMAIN m : m[o[p]].lang = m[p].lang
    BY <2>3, Zenon DEF GroupHolds, InOrderOf
  <2>5. \A p, q \in DOMAIN m : p < q /\ m[p].lang = m[q].lang =>
                        /\ main(o[q]) => main(o[p])
                        /\ main(o[p]) = main(o[q]) => o[p] < o[q]
    BY <2>1, <2>3, Zenon DEF GroupHolds, InOrderOf
  <2>6. \A p \in DOMAIN m : Cardinality(picked(m[p].lang)) <= 1
    BY <1>1, <2>3, Zenon DEF GroupHolds, AudioPicks
  <2>7. \A p \in DOMAIN m : main(o[p]) => job.autoselect[o[p]] = leads(p)
    BY <2>1, <2>3, Zenon DEF GroupHolds, AudioPicks
  <2>8. \A i, j \in DOMAIN m : job.names[i] = job.names[j] =>
          \/ i = j
          \/ NumberedAs(job.given[i], job.given[j])
          \/ NumberedAs(job.given[j], job.given[i])
    BY <2>3, Zenon DEF GroupHolds, AudioPicks
  <2>9. Body
    BY <1>2, <2>2, <2>4, <2>5, <2>6, <2>7, <2>8, Zenon
  <2> QED
    BY <2>9, Zenon DEF MasterInOrder, main, picked
<1>3. CASE job.kind = "subtitles"
  <2>1. \A i : main(i) = (m[i].purpose = "dialogue")
    BY <1>3
  <2>2. "group" # "subtitles"
    OBVIOUS
  <2>3. SubtitlesHold(job)
    BY <1>3
  <2> HIDE DEF main, picked
  <2>4. /\ {o[p] : p \in DOMAIN m} = DOMAIN m
        /\ \A p \in DOMAIN m : m[o[p]].lang = m[p].lang
    BY <2>3, Zenon DEF SubtitlesHold, InOrderOf
  <2>5. \A p, q \in DOMAIN m : p < q /\ m[p].lang = m[q].lang =>
                        /\ main(o[q]) => main(o[p])
                        /\ main(o[p]) = main(o[q]) => o[p] < o[q]
    BY <2>1, <2>3, Zenon DEF SubtitlesHold, InOrderOf
  <2>6. \A p \in DOMAIN m : Cardinality(picked(m[p].lang)) <= 1
    BY <1>1, <2>3, Zenon DEF SubtitlesHold
  <2>7. job.default # 0 =>
          /\ m[job.default].forced /\ job.autoselect[job.default]
          /\ job.audio \notin NoLanguage => m[job.default].lang \in NoLanguage \cup {job.audio}
    BY <2>3, Zenon DEF SubtitlesHold
  <2>8. Body
    BY <1>3, <2>2, <2>4, <2>5, <2>6, <2>7, Zenon
  <2> QED
    BY <2>8, Zenon DEF MasterInOrder, main, picked
<1>4. CASE job.kind \notin {"group", "subtitles"}
  BY <1>4, Zenon DEF MasterInOrder
<1> QED
  BY <1>2, <1>3, <1>4

\* The largest of finitely many numbers.
LEMMA MaxIs ==
  ASSUME NEW S \in SUBSET Int, IsFiniteSet(S), S # {}
  PROVE  Max(S) \in S /\ \A x \in S : x <= Max(S)
<1> DEFINE rank == [x \in S |-> x]
<1>1. \A x \in S : rank[x] = x /\ rank[x] \in Int
  OBVIOUS
<1> HIDE DEF rank
<1>2. PICK t \in S : \A s \in S : rank[s] <= rank[t]
  BY <1>1, LargestRank
<1>3. \A s \in S : t >= s
  BY <1>1, <1>2
<1>4. Max(S) = CHOOSE x \in S : \A y \in S : x >= y
  BY Zenon DEF Max
<1>5. Max(S) \in S /\ \A y \in S : Max(S) >= y
  BY <1>3, <1>4
<1> QED
  BY <1>5

\* The largest of what a function says of finitely many, or 0.
LEMMA MostOf ==
  ASSUME NEW D, IsFiniteSet(D), NEW f, \A x \in D : f[x] \in Nat, NEW S \in SUBSET {f[x] : x \in D}
  PROVE  /\ Max({0} \cup S) \in Nat /\ Max({0} \cup S) \in {0} \cup S
         /\ \A y \in S : y <= Max({0} \cup S)
<1> DEFINE T == {f[x] : x \in D}
           g == [x \in D |-> f[x]]
           all == {0} \cup S
<1>1. IsFiniteSet(T)
  <2>1. g \in Surjection(D, T)
    <3>1. g \in [D -> T] /\ \A y \in T : \E x \in D : g[x] = y
      OBVIOUS
    <3> QED
      BY <3>1 DEF Surjection
  <2> QED
    BY <2>1, FS_Surjection
<1>2. IsFiniteSet(all)
  <2>1. IsFiniteSet(S) /\ IsFiniteSet({0})
    BY <1>1, FS_Subset, FS_Singleton
  <2> QED
    BY <2>1, FS_Union
<1>3. all \in SUBSET Nat /\ all \in SUBSET Int /\ all # {} /\ 0 \in all
  OBVIOUS
<1> HIDE DEF all
<1>4. Max(all) \in all /\ \A x \in all : x <= Max(all)
  BY <1>2, <1>3, MaxIs
<1> QED
  BY <1>3, <1>4 DEF all

\* A rate is a number, and none is below none.
LEMMA RateIs ==
  \A b \in Nat : \A d \in Nat \ {0} : Rate(b, d) \in Nat
<1> SUFFICES ASSUME NEW b \in Nat, NEW d \in Nat \ {0}  PROVE Rate(b, d) \in Nat
  OBVIOUS
<1>1. \A n, k \in Nat : k > 0 => n \div k \in Nat
  OBVIOUS
<1>2. 16 * b + d \in Nat /\ 2 * d \in Nat /\ 2 * d > 0
  OBVIOUS
<1> QED
  BY <1>1, <1>2, Zenon DEF Rate

\* The segments of a media playlist.
IsSegments(segs, L) ==
  /\ L \in Nat /\ DOMAIN segs = 1 .. L /\ Len(segs) = L
  /\ \A i \in 1 .. L : segs[i].d \in Nat /\ segs[i].b \in Nat

\* How long any stretch of them is, and how large.
LEMMA StretchIs ==
  ASSUME NEW segs, NEW L, IsSegments(segs, L), NEW i \in Nat \ {0}, NEW k \in 0 .. L
  PROVE  Duration(segs, i, k) \in Nat /\ Bytes(segs, i, k) \in Nat
<1> DEFINE d == [n \in i .. k |-> segs[n].d]
           b == [n \in i .. k |-> segs[n].b]
<1>1. i \in Int /\ k \in Int /\ L \in Nat
  BY DEF IsSegments
<1>2. IsFiniteSet(i .. k)
  BY <1>1, FS_Interval
<1>3. \A n \in i .. k : n \in 1 .. L
  BY <1>1
<1>4. DOMAIN d = i .. k /\ \A n \in i .. k : d[n] \in Nat
  BY <1>3 DEF IsSegments
<1>5. DOMAIN b = i .. k /\ \A n \in i .. k : b[n] \in Nat
  BY <1>3 DEF IsSegments
<1>6. Duration(segs, i, k) = FoldFunction(+, 0, d) /\ Bytes(segs, i, k) = FoldFunction(+, 0, b)
  BY Zenon DEF Duration, Bytes
<1> HIDE DEF d, b
<1>7. FoldFunction(+, 0, d) \in Nat /\ FoldFunction(+, 0, b) \in Nat
  BY <1>2, <1>4, <1>5, SumIs
<1> QED
  BY <1>6, <1>7

\* What a playlist is said to need is no less than any stretch of it takes.
LEMMA StatsCover ==
  ASSUME NEW segs, NEW L, IsSegments(segs, L)
  PROVE  /\ Stats(segs) \in Nat
         /\ \A i, k \in 1 .. L : i <= k /\ Duration(segs, i, k) \in 1 .. 3 =>
              Rate(Bytes(segs, i, k), Duration(segs, i, k)) <= Stats(segs)
<1> DEFINE rate(i, k) == Rate(Bytes(segs, i, k), Duration(segs, i, k))
           ends(i) == {k \in i .. Len(segs) : Duration(segs, i, k) \in 1 .. 3}
           near == UNION {{rate(i, k) : k \in ends(i)} : i \in DOMAIN segs}
           best == Max({0} \cup near)
           single == {Rate(segs[i].b, segs[i].d) : i \in {j \in DOMAIN segs : segs[j].d > 0}}
           D == (1 .. L) \X (1 .. L)
           f == [x \in D |-> IF Duration(segs, x[1], x[2]) \in 1 .. 3 THEN rate(x[1], x[2]) ELSE 0]
           g == [i \in 1 .. L |-> IF segs[i].d > 0 THEN Rate(segs[i].b, segs[i].d) ELSE 0]
<1>1. L \in Nat /\ DOMAIN segs = 1 .. L /\ Len(segs) = L
      /\ \A i \in 1 .. L : segs[i].d \in Nat /\ segs[i].b \in Nat
  BY DEF IsSegments
<1>2. IsFiniteSet(1 .. L) /\ IsFiniteSet(D)
  <2> DEFINE I == 1 .. L
  <2>1. IsFiniteSet(I)
    BY <1>1, FS_Interval
  <2> HIDE DEF I
  <2>2. IsFiniteSet(I \X I)
    BY <2>1, FS_Product, Zenon
  <2> QED
    BY <2>1, <2>2, Zenon DEF I
<1>3. \A i, k \in 1 .. L : Duration(segs, i, k) \in Nat /\ Bytes(segs, i, k) \in Nat
  <2>1. \A i, k \in 1 .. L : i \in Nat \ {0} /\ k \in 0 .. L
    BY <1>1
  <2> QED
    BY <2>1, StretchIs
<1>4. \A i, k \in 1 .. L : Duration(segs, i, k) \in 1 .. 3 => rate(i, k) \in Nat
  <2>1. \A n \in 1 .. 3 : n \in Nat \ {0}
    OBVIOUS
  <2> QED
    BY <1>3, <2>1, RateIs, Zenon
<1>5. best \in Nat /\ \A y \in near : y <= best
  <2>1. \A x \in D : f[x] \in Nat
    <3>1. \A x \in D : x[1] \in 1 .. L /\ x[2] \in 1 .. L
      OBVIOUS
    <3>2. \A x \in D : f[x] = IF Duration(segs, x[1], x[2]) \in 1 .. 3 THEN rate(x[1], x[2]) ELSE 0
      OBVIOUS
    <3> HIDE DEF D, f, rate
    <3> QED
      BY <1>4, <3>1, <3>2
  <2>2. near \in SUBSET {f[x] : x \in D}
    <3> SUFFICES ASSUME NEW i \in 1 .. L, NEW k \in ends(i)  PROVE \E x \in D : f[x] = rate(i, k)
      BY <1>1
    <3>1. k \in 1 .. L /\ Duration(segs, i, k) \in 1 .. 3
      BY <1>1
    <3>2. <<i, k>> \in D
      BY <3>1
    <3>3. f[<<i, k>>] = rate(i, k)
      <4>1. <<i, k>>[1] = i /\ <<i, k>>[2] = k
        OBVIOUS
      <4> HIDE DEF rate, D
      <4> QED
        BY <3>1, <3>2, <4>1
    <3> HIDE DEF D, f
    <3> QED
      BY <3>2, <3>3
  <2> HIDE DEF D, f, near
  <2> QED
    BY <1>2, <2>1, <2>2, MostOf
<1>6. Max({0} \cup single) \in Nat
  <2>1. \A i \in 1 .. L : g[i] \in Nat
    <3>1. \A i \in 1 .. L : segs[i].d > 0 => segs[i].d \in Nat \ {0}
      BY <1>1
    <3>2. \A i \in 1 .. L : segs[i].d > 0 => Rate(segs[i].b, segs[i].d) \in Nat
      BY <1>1, <3>1, RateIs, Zenon
    <3> QED
      BY <3>2
  <2>2. single \in SUBSET {g[i] : i \in 1 .. L}
    <3>1. \A i \in 1 .. L : segs[i].d > 0 => g[i] = Rate(segs[i].b, segs[i].d)
      OBVIOUS
    <3> HIDE DEF g
    <3> QED
      BY <1>1, <3>1
  <2> HIDE DEF g, single
  <2> QED
    BY <1>2, <2>1, <2>2, MostOf
<1>7. PeakRate(segs) = IF best # 0 THEN best ELSE Max({0} \cup single)
  BY Zenon DEF PeakRate, SegmentRate
<1> HIDE DEF best, single
<1>8. PeakRate(segs) \in Nat /\ best <= PeakRate(segs)
  BY <1>5, <1>6, <1>7
<1>9. AvgRate(segs) \in Nat
  <2>1. Duration(segs, 1, Len(segs)) \in Nat /\ Bytes(segs, 1, Len(segs)) \in Nat
    <3>1. 1 \in Nat \ {0} /\ L \in 0 .. L
      BY <1>1
    <3> QED
      BY <1>1, <3>1, StretchIs
  <2>2. Duration(segs, 1, Len(segs)) > 0 => Duration(segs, 1, Len(segs)) \in Nat \ {0}
    BY <2>1
  <2> QED
    BY <2>1, <2>2, RateIs DEF AvgRate
<1>10. Stats(segs) \in Nat /\ best <= Stats(segs)
  BY <1>5, <1>8, <1>9 DEF Stats
<1>11. ASSUME NEW i \in 1 .. L, NEW k \in 1 .. L, i <= k, Duration(segs, i, k) \in 1 .. 3
       PROVE  rate(i, k) <= Stats(segs)
  <2>1. k \in ends(i)
    BY <1>1, <1>11
  <2>2. rate(i, k) \in near
    <3> HIDE DEF rate, ends
    <3> QED
      BY <1>1, <2>1
  <2> HIDE DEF near
  <2>3. rate(i, k) <= best /\ rate(i, k) \in Nat
    BY <1>4, <1>5, <1>11, <2>2
  <2> HIDE DEF rate
  <2> QED
    BY <1>5, <1>10, <2>3
<1> HIDE DEF rate
<1> QED
  BY <1>10, <1>11 DEF rate

\* A group needs what its highest rendition does.
LEMMA PeakIs ==
  ASSUME NEW n \in Nat, NEW stats, DOMAIN stats = 1 .. n, \A i \in 1 .. n : stats[i] \in Nat
  PROVE  Peak(stats) \in Nat /\ \A i \in 1 .. n : stats[i] <= Peak(stats)
<1> DEFINE S == {stats[i] : i \in 1 .. n}
<1>1. Peak(stats) = Max({0} \cup S)
  BY Zenon DEF Peak
<1>2. IsFiniteSet(1 .. n) /\ S \in SUBSET {stats[i] : i \in 1 .. n}
  BY FS_Interval
<1>3. Max({0} \cup S) \in Nat /\ \A y \in S : y <= Max({0} \cup S)
  <2> HIDE DEF S
  <2> QED
    BY <1>2, MostOf
<1>4. \A i \in 1 .. n : stats[i] \in S
  OBVIOUS
<1> HIDE DEF S
<1> QED
  BY <1>1, <1>3, <1>4

\* The most of a list, and of what is played of it.
LEMMA PeakOf ==
  ASSUME NEW B \in SUBSET Nat, NEW n \in Nat, NEW stats \in [1 .. n -> B]
  PROVE  Peak(stats) \in Nat /\ \A a \in {0} \cup Range(stats) : a \in Nat /\ a <= Peak(stats)
<1>1. DOMAIN stats = 1 .. n /\ \A i \in 1 .. n : stats[i] \in Nat
  OBVIOUS
<1>2. Peak(stats) \in Nat /\ \A i \in 1 .. n : stats[i] <= Peak(stats)
  BY <1>1, PeakIs
<1>3. \A a \in Range(stats) : \E i \in 1 .. n : a = stats[i]
  BY <1>1 DEF Range
<1> QED
  BY <1>1, <1>2, <1>3

\* Of the one video with the one group.
LEMMA OneVariant ==
  ASSUME NEW video, NEW group, NEW subtitles
  PROVE  /\ Variants(<<video>>, <<group>>, subtitles) # {}
         /\ \A v \in Variants(<<video>>, <<group>>, subtitles) : v.bandwidth = Bandwidth(video, group, subtitles)
<1>1. <<group>> # <<>> /\ DOMAIN <<group>> = {1} /\ DOMAIN <<video>> = {1}
  OBVIOUS
<1>2. <<group>>[1] = group /\ <<video>>[1] = video
  OBVIOUS
<1> DEFINE one == [group |-> 1, video |-> 1, bandwidth |-> Bandwidth(video, group, subtitles)]
<1>3. one \in Variants(<<video>>, <<group>>, subtitles)
  BY <1>1, <1>2 DEF Variants
<1>4. \A v \in Variants(<<video>>, <<group>>, subtitles) : v.bandwidth = Bandwidth(video, group, subtitles)
  BY <1>1, <1>2 DEF Variants
<1> QED
  BY <1>3, <1>4

\* Each of a master's variants is enough for its video.
BandwidthHolds(j) ==
  /\ j.variants # {}
  /\ \A v \in j.variants, i \in DOMAIN j.segs, k \in DOMAIN j.segs :
       i <= k /\ Duration(j.segs, i, k) \in 1 .. 3 =>
         \A a \in {0} \cup Range(j.group), s \in {0} \cup Range(j.subtitles) :
           v.bandwidth >= Rate(Bytes(j.segs, i, k), Duration(j.segs, i, k)) + a + s

\* The one that is written is.
LEMMA BandwidthJob ==
  WriteMaster => job'.kind = "master" /\ BandwidthHolds(job')
<1> SUFFICES ASSUME WriteMaster  PROVE job'.kind = "master" /\ BandwidthHolds(job')
  OBVIOUS
<1>1. PICK segs \in UpTo(MaxSegments, Segments), group \in UpTo(2, {0, 5}), subtitles \in UpTo(1, {2}) :
        job' = [kind |-> "master", segs |-> segs, group |-> group, subtitles |-> subtitles,
                variants |-> Variants(<<Stats(segs)>>, <<group>>, subtitles)]
  BY DEF WriteMaster
<1> DEFINE all == Variants(<<Stats(segs)>>, <<group>>, subtitles)
<1>2. /\ job'.kind = "master" /\ job'.segs = segs /\ job'.group = group /\ job'.subtitles = subtitles
      /\ job'.variants = all
  BY <1>1
<1>3. PICK L \in Nat : segs \in [1 .. L -> Segments]
  BY PlansAssumption DEF UpTo
<1>4. \A s \in Segments : s.d \in Nat /\ s.b \in Nat
  BY DEF Segments
<1>5. IsSegments(segs, L)
  <2>1. DOMAIN segs = 1 .. L /\ Len(segs) = L /\ \A i \in 1 .. L : segs[i] \in Segments
    BY <1>3
  <2> QED
    BY <1>4, <2>1, Zenon DEF IsSegments
<1>6. PICK n \in Nat : group \in [1 .. n -> {0, 5}]
  <2>1. \A k \in 0 .. 2 : k \in Nat
    OBVIOUS
  <2> QED
    BY <2>1, Zenon DEF UpTo
<1>7. PICK m \in Nat : subtitles \in [1 .. m -> {2}]
  <2>1. \A k \in 0 .. 1 : k \in Nat
    OBVIOUS
  <2> QED
    BY <2>1, Zenon DEF UpTo
<1>8. Peak(group) \in Nat /\ \A a \in {0} \cup Range(group) : a \in Nat /\ a <= Peak(group)
  <2>1. {0, 5} \in SUBSET Nat
    OBVIOUS
  <2> QED
    BY <1>6, <2>1, PeakOf
<1>9. Peak(subtitles) \in Nat /\ \A s \in {0} \cup Range(subtitles) : s \in Nat /\ s <= Peak(subtitles)
  <2>1. {2} \in SUBSET Nat
    OBVIOUS
  <2> QED
    BY <1>7, <2>1, PeakOf
<1>10. /\ all # {}
       /\ \A v \in all : v.bandwidth = Stats(segs) + Peak(group) + Peak(subtitles)
  <2>1. /\ all # {}
        /\ \A v \in all : v.bandwidth = Bandwidth(Stats(segs), group, subtitles)
    BY OneVariant
  <2> HIDE DEF all
  <2> QED
    BY <2>1, Zenon DEF Bandwidth
<1> HIDE DEF all
<1>11. ASSUME NEW v \in all, NEW i \in DOMAIN segs, NEW k \in DOMAIN segs,
              i <= k, Duration(segs, i, k) \in 1 .. 3,
              NEW a \in {0} \cup Range(group), NEW s \in {0} \cup Range(subtitles)
       PROVE  v.bandwidth >= Rate(Bytes(segs, i, k), Duration(segs, i, k)) + a + s
  <2> DEFINE rate == Rate(Bytes(segs, i, k), Duration(segs, i, k))
  <2>1. i \in 1 .. L /\ k \in 1 .. L
    BY <1>5 DEF IsSegments
  <2>2. Stats(segs) \in Nat /\ rate <= Stats(segs)
    BY <1>5, <1>11, <2>1, StatsCover, Zenon
  <2>3. rate \in Nat
    <3>1. i \in Nat \ {0} /\ k \in 0 .. L
      BY <2>1
    <3>2. Bytes(segs, i, k) \in Nat
      BY <1>5, <3>1, StretchIs
    <3>3. Duration(segs, i, k) \in Nat \ {0}
      BY <1>11
    <3> QED
      BY <3>2, <3>3, RateIs
  <2> HIDE DEF rate
  <2>4. v.bandwidth >= rate + a + s
    BY <1>8, <1>9, <1>10, <2>2, <2>3
  <2> QED
    BY <2>4 DEF rate
<1> QED
  BY <1>2, <1>10, <1>11, Zenon DEF BandwidthHolds

\* Where the lists of a list went: each of their places to one of t.
JoinedFrom(t, seqs, of, in, n) ==
  /\ \A i \in 1 .. Len(t) : of[i] \in 1 .. n /\ in[i] \in 1 .. Len(seqs[of[i]]) /\ t[i] = seqs[of[i]][in[i]]
  /\ \A i, j \in 1 .. Len(t) : of[i] = of[j] /\ in[i] = in[j] => i = j
  /\ \A g \in 1 .. n : \A p \in 1 .. Len(seqs[g]) : \E i \in 1 .. Len(t) : of[i] = g /\ in[i] = p

\* One more is joined.
LEMMA JoinedMore ==
  ASSUME NEW B, NEW seqs \in Seq(Seq(B)), NEW n \in 1 .. Len(seqs), NEW t \in Seq(B), NEW of, NEW in,
         JoinedFrom(t, seqs, of, in, n - 1)
  PROVE  \E o, p : JoinedFrom(t \o seqs[n], seqs, o, p, n)
<1> DEFINE L == Len(t)
           s == seqs[n]
           M == Len(s)
           all == t \o s
           o == [i \in 1 .. (L + M) |-> IF i <= L THEN of[i] ELSE n]
           p == [i \in 1 .. (L + M) |-> IF i <= L THEN in[i] ELSE i - L]
<1>1. L \in Nat /\ M \in Nat /\ n \in Nat /\ n >= 1 /\ s \in Seq(B)
  OBVIOUS
<1>2. /\ Len(all) = L + M
      /\ \A i \in 1 .. L : all[i] = t[i]
      /\ \A i \in 1 .. (L + M) : ~ (i <= L) => all[i] = s[i - L]
  BY <1>1
<1>3. /\ \A i \in 1 .. (L + M) : i <= L => o[i] = of[i] /\ p[i] = in[i]
      /\ \A i \in 1 .. (L + M) : ~ (i <= L) => o[i] = n /\ p[i] = i - L
  OBVIOUS
<1>4. /\ \A i \in 1 .. L : of[i] \in 1 .. (n - 1) /\ in[i] \in 1 .. Len(seqs[of[i]]) /\ t[i] = seqs[of[i]][in[i]]
      /\ \A i, j \in 1 .. L : of[i] = of[j] /\ in[i] = in[j] => i = j
      /\ \A g \in 1 .. (n - 1) : \A q \in 1 .. Len(seqs[g]) : \E i \in 1 .. L : of[i] = g /\ in[i] = q
  BY Zenon DEF JoinedFrom
<1>5. \A i \in 1 .. (L + M) : i <= L => i \in 1 .. L
  BY <1>1
<1>6. \A i \in 1 .. L : i \in 1 .. (L + M) /\ i <= L
  BY <1>1
<1>7. \A i \in 1 .. (L + M) : ~ (i <= L) => i - L \in 1 .. M
  BY <1>1
<1> HIDE DEF o, p, all
<1>8. ASSUME NEW i \in 1 .. (L + M)
      PROVE  o[i] \in 1 .. n /\ p[i] \in 1 .. Len(seqs[o[i]]) /\ all[i] = seqs[o[i]][p[i]]
  <2>1. CASE i <= L
    <3>1. i \in 1 .. L /\ o[i] = of[i] /\ p[i] = in[i] /\ all[i] = t[i]
      BY <1>2, <1>3, <1>5, <2>1, Zenon
    <3>2. of[i] \in 1 .. (n - 1) => of[i] \in 1 .. n
      BY <1>1
    <3> QED
      BY <1>4, <3>1, <3>2, Zenon
  <2>2. CASE ~ (i <= L)
    <3>1. o[i] = n /\ p[i] = i - L /\ all[i] = s[i - L] /\ i - L \in 1 .. M
      BY <1>2, <1>3, <1>7, <2>2, Zenon
    <3>2. n \in 1 .. n
      BY <1>1
    <3> QED
      BY <3>1, <3>2, Zenon
  <2> QED
    BY <2>1, <2>2
<1>9. ASSUME NEW i \in 1 .. (L + M), NEW j \in 1 .. (L + M), o[i] = o[j], p[i] = p[j]  PROVE i = j
  <2>1. \A k \in 1 .. (L + M) : k <= L => o[k] \in 1 .. (n - 1)
    BY <1>3, <1>4, <1>5, Zenon
  <2>2. n \notin 1 .. (n - 1)
    BY <1>1
  <2>3. CASE i <= L /\ j <= L
    <3>1. i \in 1 .. L /\ j \in 1 .. L
      BY <1>5, <2>3
    <3>2. of[i] = of[j] /\ in[i] = in[j]
      BY <1>3, <1>9, <2>3, Zenon
    <3> QED
      BY <1>4, <3>1, <3>2, Zenon
  <2>4. CASE ~ (i <= L) /\ ~ (j <= L)
    <3>1. i - L = j - L
      BY <1>3, <1>9, <2>4, Zenon
    <3> QED
      BY <1>1, <3>1
  <2>5. CASE i <= L /\ ~ (j <= L)
    BY <1>3, <1>9, <2>1, <2>2, <2>5, Zenon
  <2>6. CASE ~ (i <= L) /\ j <= L
    BY <1>3, <1>9, <2>1, <2>2, <2>6, Zenon
  <2> QED
    BY <2>3, <2>4, <2>5, <2>6
<1>10. ASSUME NEW g \in 1 .. n, NEW q \in 1 .. Len(seqs[g])
       PROVE  \E i \in 1 .. (L + M) : o[i] = g /\ p[i] = q
  <2>1. CASE g = n
    <3>1. q \in 1 .. M
      BY <2>1
    <3>2. L + q \in 1 .. (L + M) /\ ~ (L + q <= L) /\ (L + q) - L = q
      BY <1>1, <3>1
    <3>3. o[L + q] = n /\ p[L + q] = q
      BY <1>3, <3>2
    <3> QED
      BY <2>1, <3>2, <3>3
  <2>2. CASE g # n
    <3>1. g \in 1 .. (n - 1)
      BY <1>1, <2>2
    <3>2. PICK i \in 1 .. L : of[i] = g /\ in[i] = q
      BY <1>4, <3>1
    <3> QED
      BY <1>3, <1>6, <3>2, Zenon
  <2> QED
    BY <2>1, <2>2
<1>11. JoinedFrom(all, seqs, o, p, n)
  BY <1>2, <1>8, <1>9, <1>10 DEF JoinedFrom
<1> QED
  BY <1>11 DEF all

\* The lists of a list, one after the other, have what these have.
LEMMA ConcatenatedIs ==
  ASSUME NEW B, NEW seqs \in Seq(Seq(B))
  PROVE  Concatenated(seqs) \in Seq(B) /\ \E of, in : JoinedFrom(Concatenated(seqs), seqs, of, in, Len(seqs))
<1> DEFINE N == Len(seqs)
           Good(f) == f = [n \in 0 .. N |-> IF n = 0 THEN <<>> ELSE f[n - 1] \o seqs[n]]
           some == CHOOSE f : Good(f)
           step == [n \in 1 .. N |-> [t \in Seq(B) |-> t \o seqs[n]]]
<1>1. N \in Nat /\ (\A n \in 1 .. N : seqs[n] \in Seq(B)) /\ <<>> \in Seq(B)
  OBVIOUS
<1>2. Concatenated(seqs) = some[N]
  BY Zenon DEF Concatenated
<1>3. step \in [1 .. N -> [Seq(B) -> Seq(B)]]
  <2>1. \A n \in 1 .. N : \A t \in Seq(B) : t \o seqs[n] \in Seq(B)
    BY <1>1
  <2> QED
    BY <2>1
<1>4. PICK g : Carries(g, N, Seq(B), <<>>, step)
  <2> HIDE DEF step, N
  <2> QED
    BY <1>1, <1>3, CarriedOut
<1>5. Good(g)
  <2>1. g \in [0 .. N -> Seq(B)] /\ g[0] = <<>> /\ \A n \in 1 .. N : g[n] = step[n][g[n - 1]]
    BY <1>4, Zenon DEF Carries
  <2>2. \A n \in 1 .. N : \A t \in Seq(B) : step[n][t] = t \o seqs[n]
    OBVIOUS
  <2> HIDE DEF N, step
  <2>3. \A n \in 1 .. N : g[n - 1] \in Seq(B)
    BY <1>1, <2>1
  <2>4. \A n \in 0 .. N : n = 0 \/ n \in 1 .. N
    BY <1>1
  <2>5. \A n \in 1 .. N : n # 0
    BY <1>1
  <2>6. \A n \in 0 .. N : g[n] = IF n = 0 THEN <<>> ELSE g[n - 1] \o seqs[n]
    BY <2>1, <2>2, <2>3, <2>4, <2>5, Zenon
  <2>7. DOMAIN g = 0 .. N /\ g = [n \in 0 .. N |-> g[n]]
    BY <2>1
  <2> QED
    BY <2>6, <2>7, Zenon
<1>6. Good(some)
  <2> HIDE DEF Good
  <2> QED
    BY <1>5
<1> HIDE DEF some, step
<1>7. some[0] = <<>> /\ \A n \in 1 .. N : some[n] = some[n - 1] \o seqs[n]
  <2>1. \A n \in 1 .. N : n \in 0 .. N /\ n # 0
    BY <1>1
  <2>2. 0 \in 0 .. N
    BY <1>1
  <2> HIDE DEF N
  <2> QED
    BY <1>6, <2>1, <2>2, Zenon
<1> HIDE DEF Good
<1> DEFINE Fits(n) == some[n] \in Seq(B) /\ \E of, in : JoinedFrom(some[n], seqs, of, in, n)
           bad == {n \in 0 .. N : ~ Fits(n)}
<1>8. Fits(0)
  <2>1. JoinedFrom(<<>>, seqs, <<>>, <<>>, 0)
    BY DEF JoinedFrom
  <2> QED
    BY <1>1, <1>7, <2>1
<1>9. ASSUME NEW n \in 1 .. N, Fits(n - 1)  PROVE Fits(n)
  <2>1. PICK of, in : JoinedFrom(some[n - 1], seqs, of, in, n - 1)
    BY <1>9
  <2>2. \E o, p : JoinedFrom(some[n - 1] \o seqs[n], seqs, o, p, n)
    BY <1>9, <2>1, JoinedMore
  <2>3. some[n - 1] \o seqs[n] \in Seq(B)
    BY <1>1, <1>9
  <2>4. some[n] = some[n - 1] \o seqs[n]
    BY <1>7
  <2> QED
    BY <2>2, <2>3, <2>4, Zenon
<1> HIDE DEF Fits
<1>10. bad = {}
  <2> SUFFICES ASSUME bad # {}  PROVE FALSE
    OBVIOUS
  <2>1. bad \subseteq Nat
    OBVIOUS
  <2>2. PICK x \in bad : \A y \in bad : x <= y
    <3> HIDE DEF bad
    <3> QED
      BY <2>1, LeastNumber
  <2>3. x \in 1 .. N
    BY <1>8, <2>2
  <2>4. x - 1 \in 0 .. N /\ x - 1 \notin bad
    <3>1. x - 1 \in 0 .. N /\ ~ (x <= x - 1)
      BY <1>1, <2>3
    <3> QED
      BY <2>2, <3>1, Zenon
  <2>5. Fits(x - 1)
    BY <2>4
  <2> QED
    BY <1>9, <2>2, <2>3, <2>5
<1>11. N \in 0 .. N
  BY <1>1
<1>12. Fits(N)
  BY <1>10, <1>11
<1> QED
  BY <1>2, <1>12 DEF Fits

\* t has each of what s has, once.
EachOnce(t, s) ==
  /\ \A n \in 1 .. Len(s) : \E k \in 1 .. Len(t) : t[k] = s[n]
  /\ \A k \in 1 .. Len(t) : \E n \in 1 .. Len(s) : t[k] = s[n]
  /\ \A k, l \in 1 .. Len(t) : t[k] = t[l] => k = l

\* So has what a sequence has for the first time.
LEMMA FirstsAre ==
  ASSUME NEW B, NEW s \in Seq(B)
  PROVE  Kept(s, Firsts(s)) \in Seq(B) /\ EachOnce(Kept(s, Firsts(s)), s)
<1> DEFINE N == Len(s)
           t == Kept(s, Firsts(s))
<1>1. N \in Nat /\ DOMAIN s = 1 .. N
  OBVIOUS
<1>2. t \in Seq(B) /\ \E at : KeptAt(t, s, Firsts(s), at, N)
  BY KeptIs
<1>3. PICK at : KeptAt(t, s, Firsts(s), at, N)
  BY <1>2
<1> HIDE DEF t
<1>4. /\ at \in Seq(1 .. N) /\ Len(at) = Len(t)
      /\ \A i \in 1 .. Len(t) : at[i] \in Firsts(s) /\ t[i] = s[at[i]]
      /\ \A i, j \in 1 .. Len(t) : i < j => at[i] < at[j]
      /\ \A k \in Firsts(s) \cap (1 .. N) : \E i \in 1 .. Len(t) : at[i] = k
  BY <1>3, Zenon DEF KeptAt
<1>5. \A i \in 1 .. Len(t) : at[i] \in 1 .. N
  BY <1>4
<1>6. ASSUME NEW n \in 1 .. N  PROVE \E k \in 1 .. Len(t) : t[k] = s[n]
  <2> DEFINE same == {m \in 1 .. N : s[m] = s[n]}
  <2>1. same \subseteq Nat /\ same # {}
    OBVIOUS
  <2>2. PICK x \in same : \A y \in same : x <= y
    <3> HIDE DEF same
    <3> QED
      BY <2>1, LeastNumber
  <2>3. x \in Firsts(s)
    <3>1. \A m \in 1 .. x - 1 : m \in 1 .. N /\ ~ (x <= m)
      BY <2>2
    <3>2. \A m \in 1 .. x - 1 : s[m] # s[n]
      BY <2>2, <3>1
    <3> QED
      BY <2>2, <3>2 DEF Firsts
  <2>4. PICK k \in 1 .. Len(t) : at[k] = x
    BY <1>4, <2>2, <2>3
  <2> QED
    BY <1>4, <2>2, <2>4
<1>7. ASSUME NEW k \in 1 .. Len(t)  PROVE \E n \in 1 .. N : t[k] = s[n]
  BY <1>4, <1>5
<1>8. ASSUME NEW k \in 1 .. Len(t), NEW l \in 1 .. Len(t), t[k] = t[l], k < l  PROVE FALSE
  <2>1. at[k] \in 1 .. N /\ at[l] \in 1 .. N /\ at[k] < at[l]
    BY <1>4, <1>5, <1>8
  <2>2. at[k] \in 1 .. at[l] - 1
    BY <2>1
  <2>3. s[at[k]] # s[at[l]]
    BY <1>4, <2>2, Zenon DEF Firsts
  <2> QED
    BY <1>4, <1>8, <2>3, Zenon
<1>9. \A k, l \in 1 .. Len(t) : t[k] = t[l] => k = l
  <2>1. \A k, l \in 1 .. Len(t) : ~ (k < l) /\ ~ (l < k) => k = l
    OBVIOUS
  <2> QED
    BY <1>8, <2>1, Zenon
<1> QED
  BY <1>2, <1>6, <1>7, <1>9, Zenon DEF EachOnce, t

(***************************************************************************)
(* A package: the rungs, numbered, and the audio renditions, in a group of *)
(* each kind.                                                              *)
(***************************************************************************)

AudioGroups == {"audio", "surround"}

\* The codec of a group's renditions.
CodecOfGroup(group) == IF group = "audio" THEN "mp4a" ELSE "ec-3"

\* Renditions, each of a group and in its codec, one of each group its default.
IsAudio(rows, N) ==
  /\ N \in Nat /\ Listing(rows, N) /\ DOMAIN rows = 1 .. N /\ Len(rows) = N
  /\ \A n \in 1 .. N : rows[n].group \in AudioGroups /\ rows[n].codec = CodecOfGroup(rows[n].group)

\* A group's renditions, by their numbers, in their order.
LEMMA MembersAre ==
  ASSUME NEW rows, NEW N \in Nat, IsAudio(rows, N), NEW g
  PROVE  LET ns == Members(rows, g)
         IN /\ ns \in Seq(1 .. N)
            /\ \A k \in 1 .. Len(ns) : rows[ns[k]].group = g
            /\ \A n \in 1 .. N : rows[n].group = g => \E k \in 1 .. Len(ns) : ns[k] = n
            /\ \A k, l \in 1 .. Len(ns) : ns[k] = ns[l] => k = l
<1> DEFINE S == {n \in 1 .. N : rows[n].group = g}
           ns == Members(rows, g)
<1>1. N \in Nat /\ DOMAIN rows = 1 .. N /\ Len(rows) = N
  BY DEF IsAudio
<1>2. ns = InOrder(S, N)
  BY <1>1, Zenon DEF Members
<1>3. S \in SUBSET (1 .. N)
  OBVIOUS
<1> HIDE DEF S, ns
<1>4. /\ ns \in Seq(S) /\ \A k \in S : \E i \in 1 .. Len(ns) : ns[i] = k
      /\ \A i, j \in 1 .. Len(ns) : i < j => ns[i] < ns[j]
  BY <1>1, <1>2, <1>3, InOrderIs
<1>5. ns \in Seq(1 .. N) /\ \A k \in 1 .. Len(ns) : ns[k] \in S
  <2>1. ns \in Seq(S)
    BY <1>4
  <2>2. Len(ns) \in Nat /\ ns \in [1 .. Len(ns) -> S]
    BY <2>1
  <2>3. ns \in [1 .. Len(ns) -> 1 .. N]
    BY <1>3, <2>2
  <2> QED
    BY <2>2, <2>3
<1>6. \A k, l \in 1 .. Len(ns) : ns[k] = ns[l] => k = l
  <2>1. \A k \in 1 .. Len(ns) : ns[k] \in Int /\ k \in Int
    <3>1. \A n \in 1 .. N : n \in Int
      BY <1>1
    <3> QED
      BY <1>5, <3>1
  <2>2. \A a, b \in Int : ~ (a < b) /\ ~ (b < a) => a = b
    OBVIOUS
  <2>3. \A a \in Int : ~ (a < a)
    OBVIOUS
  <2> QED
    BY <1>4, <2>1, <2>2, <2>3
<1> QED
  BY <1>4, <1>5, <1>6 DEF S, ns

\* A group's lines are its renditions', each once.
LinesFor(o, rows, N, g) ==
  /\ o \in Seq(1 .. N) /\ DOMAIN o = 1 .. Len(o)
  /\ \A p \in 1 .. Len(o) : rows[o[p]].group = g
  /\ \A n \in 1 .. N : rows[n].group = g => \E p \in 1 .. Len(o) : o[p] = n
  /\ \A p, q \in 1 .. Len(o) : o[p] = o[q] => p = q

LEMMA GroupLines ==
  ASSUME NEW rows, NEW N \in Nat, IsAudio(rows, N), NEW g
  PROVE  LinesFor(LinesOf(rows, g), rows, N, g)
<1> DEFINE ns == Members(rows, g)
           L == Len(ns)
           langs == [k \in DOMAIN ns |-> rows[ns[k]].lang]
           mains == [k \in DOMAIN ns |-> rows[ns[k]].purpose = "main"]
           order == MainFirst(langs, mains)
           o == LinesOf(rows, g)
<1>1. /\ ns \in Seq(1 .. N)
      /\ \A k \in 1 .. L : rows[ns[k]].group = g
      /\ \A n \in 1 .. N : rows[n].group = g => \E k \in 1 .. L : ns[k] = n
      /\ \A k, l \in 1 .. L : ns[k] = ns[l] => k = l
  BY MembersAre
<1>2. o = [p \in DOMAIN ns |-> ns[order[p]]]
  BY Zenon DEF LinesOf
<1> HIDE DEF ns, o
<1>3. L \in Nat /\ DOMAIN ns = 1 .. L /\ \A k \in 1 .. L : ns[k] \in 1 .. N
  <2>1. ns \in Seq(1 .. N)
    BY <1>1
  <2> QED
    BY <2>1
<1>4. DOMAIN langs = 1 .. L /\ \A i \in 1 .. L : mains[i] \in BOOLEAN
  BY <1>3
<1> HIDE DEF langs, mains, L
<1>5. Shuffled(order, langs, mains, L)
  BY <1>3, <1>4, MainFirstIs
<1> HIDE DEF order
<1>6. /\ \A p \in 1 .. L : order[p] \in 1 .. L
      /\ \A p, q \in 1 .. L : order[p] = order[q] => p = q
      /\ \A i \in 1 .. L : \E p \in 1 .. L : order[p] = i
  BY <1>5, Zenon DEF Shuffled
<1>7. o = [p \in 1 .. L |-> ns[order[p]]]
  BY <1>2, <1>3, Zenon
<1>8. o \in Seq(1 .. N) /\ Len(o) = L /\ DOMAIN o = 1 .. L /\ \A p \in 1 .. L : o[p] = ns[order[p]]
  <2>1. \A p \in 1 .. L : ns[order[p]] \in 1 .. N
    BY <1>3, <1>6, Zenon
  <2>2. o \in [1 .. L -> 1 .. N] /\ \A p \in 1 .. L : o[p] = ns[order[p]]
    BY <1>7, <2>1, Zenon
  <2>3. L \in Nat
    BY <1>3
  <2>4. o \in Seq(1 .. N) /\ Len(o) = L /\ DOMAIN o = 1 .. L
    BY <2>2, <2>3
  <2> QED
    BY <2>2, <2>4
<1>9. \A p \in 1 .. L : rows[o[p]].group = g
  <2> SUFFICES ASSUME NEW p \in 1 .. L  PROVE rows[o[p]].group = g
    OBVIOUS
  <2>1. o[p] = ns[order[p]] /\ order[p] \in 1 .. L
    BY <1>6, <1>8, Zenon
  <2>2. rows[ns[order[p]]].group = g
    BY <1>1, <2>1, Zenon DEF L
  <2> QED
    BY <2>1, <2>2, Zenon
<1>10. \A n \in 1 .. N : rows[n].group = g => \E p \in 1 .. L : o[p] = n
  <2> SUFFICES ASSUME NEW n \in 1 .. N, rows[n].group = g  PROVE \E p \in 1 .. L : o[p] = n
    OBVIOUS
  <2>1. PICK k \in 1 .. L : ns[k] = n
    BY <1>1, Zenon DEF L
  <2>2. PICK p \in 1 .. L : order[p] = k
    BY <1>6, Zenon
  <2> QED
    BY <1>8, <2>1, <2>2, Zenon
<1>11. \A p, q \in 1 .. L : o[p] = o[q] => p = q
  <2> SUFFICES ASSUME NEW p \in 1 .. L, NEW q \in 1 .. L, o[p] = o[q]  PROVE p = q
    OBVIOUS
  <2>1. ns[order[p]] = ns[order[q]] /\ order[p] \in 1 .. L /\ order[q] \in 1 .. L
    BY <1>6, <1>8, Zenon
  <2>2. order[p] = order[q]
    BY <1>1, <2>1, Zenon DEF L
  <2> QED
    BY <1>6, <2>2, Zenon
<1> QED
  BY <1>8, <1>9, <1>10, <1>11, Zenon DEF LinesFor, o, L

\* The groups there are, or the one that is none.
GroupsStand(gs, rows, N) ==
  /\ gs \in Seq(AudioGroups \cup {"none"}) /\ Len(gs) >= 1
  /\ \A g, h \in 1 .. Len(gs) : gs[g] = gs[h] => g = h
  /\ \A n \in 1 .. N : \E g \in 1 .. Len(gs) : gs[g] = rows[n].group
  /\ \A g \in 1 .. Len(gs) : gs[g] # "none" => \E n \in 1 .. N : rows[n].group = gs[g]

LEMMA GroupsListed ==
  ASSUME NEW rows, NEW N \in Nat, IsAudio(rows, N)
  PROVE  GroupsStand(GroupsInOrder(rows), rows, N)
<1> DEFINE groups == [n \in DOMAIN rows |-> rows[n].group]
           gs == GroupsInOrder(rows)
<1>1. N \in Nat /\ DOMAIN rows = 1 .. N /\ Len(rows) = N /\ \A n \in 1 .. N : rows[n].group \in AudioGroups
  BY DEF IsAudio
<1>2. gs = IF rows = <<>> THEN <<"none">> ELSE Kept(groups, Firsts(groups))
  BY Zenon DEF GroupsInOrder
<1>3. groups \in Seq(AudioGroups) /\ Len(groups) = N /\ \A n \in 1 .. N : groups[n] = rows[n].group
  BY <1>1
<1> HIDE DEF groups, gs
<1>4. CASE rows = <<>>
  <2>1. gs = <<"none">> /\ N = 0
    BY <1>1, <1>2, <1>4
  <2>2. Len(gs) = 1 /\ gs[1] = "none" /\ gs \in Seq({"none"})
    BY <2>1
  <2>3. gs \in Seq(AudioGroups \cup {"none"})
    BY <2>1
  <2> QED
    BY <1>1, <2>1, <2>2, <2>3 DEF GroupsStand, gs
<1>5. CASE rows # <<>>
  <2>1. N >= 1
    <3>1. CASE N = 0
      <4>1. DOMAIN rows = {}
        BY <1>1, <3>1
      <4>2. rows = [n \in DOMAIN rows |-> rows[n]]
        BY <1>1, Zenon DEF IsAudio, Listing
      <4> QED
        BY <1>5, <4>1, <4>2
    <3> QED
      BY <1>1, <3>1
  <2>2. /\ gs \in Seq(AudioGroups)
        /\ \A n \in 1 .. N : \E k \in 1 .. Len(gs) : gs[k] = groups[n]
        /\ \A k \in 1 .. Len(gs) : \E n \in 1 .. N : gs[k] = groups[n]
        /\ \A k, l \in 1 .. Len(gs) : gs[k] = gs[l] => k = l
    <3>1. gs = Kept(groups, Firsts(groups))
      BY <1>2, <1>5, Zenon
    <3>2. Kept(groups, Firsts(groups)) \in Seq(AudioGroups)
          /\ EachOnce(Kept(groups, Firsts(groups)), groups)
      BY <1>3, FirstsAre
    <3> QED
      BY <1>3, <3>1, <3>2, Zenon DEF EachOnce
  <2>3. \E k \in 1 .. Len(gs) : TRUE
    <3>1. 1 \in 1 .. N
      BY <1>1, <2>1
    <3> QED
      BY <2>2, <3>1
  <2>4. Len(gs) >= 1 /\ gs \in Seq(AudioGroups \cup {"none"})
    BY <2>2, <2>3
  <2>5. \A n \in 1 .. N : groups[n] = rows[n].group
    BY <1>3, Zenon
  <2>6. \A n \in 1 .. N : \E g \in 1 .. Len(gs) : gs[g] = rows[n].group
    <3> SUFFICES ASSUME NEW n \in 1 .. N  PROVE \E g \in 1 .. Len(gs) : gs[g] = rows[n].group
      OBVIOUS
    <3>1. PICK g \in 1 .. Len(gs) : gs[g] = groups[n]
      BY <2>2, Zenon
    <3> QED
      BY <2>5, <3>1, Zenon
  <2>7. \A g \in 1 .. Len(gs) : \E n \in 1 .. N : rows[n].group = gs[g]
    <3> SUFFICES ASSUME NEW g \in 1 .. Len(gs)  PROVE \E n \in 1 .. N : rows[n].group = gs[g]
      OBVIOUS
    <3>1. PICK n \in 1 .. N : gs[g] = groups[n]
      BY <2>2, Zenon
    <3> QED
      BY <2>5, <3>1, Zenon
  <2> QED
    BY <2>2, <2>4, <2>6, <2>7, Zenon DEF GroupsStand, gs
<1> QED
  BY <1>4, <1>5

\* Lists of any things, one after the other.
LEMMA ListsJoined ==
  ASSUME NEW G \in Nat, NEW lists, Listing(lists, G), NEW length \in [1 .. G -> Nat],
         \A g \in 1 .. G : Listing(lists[g], length[g])
  PROVE  LET t == Concatenated(lists)
         IN /\ Len(t) \in Nat /\ Listing(t, Len(t)) /\ Len(lists) = G
            /\ \A g \in 1 .. G : Len(lists[g]) = length[g]
            /\ \E of, in : JoinedFrom(t, lists, of, in, G)
<1> DEFINE Things(g) == {lists[g][k] : k \in 1 .. length[g]}
           B == UNION {Things(g) : g \in 1 .. G}
           t == Concatenated(lists)
<1>1. ASSUME NEW g \in 1 .. G  PROVE lists[g] \in Seq(B) /\ Len(lists[g]) = length[g]
  <2> DEFINE l == lists[g]
             n == length[g]
  <2>1. n \in Nat /\ l = [i \in 1 .. n |-> l[i]]
    BY DEF Listing
  <2>2. \A i \in 1 .. n : l[i] \in B
    <3>1. \A i \in 1 .. n : l[i] \in Things(g)
      OBVIOUS
    <3> HIDE DEF Things
    <3> QED
      BY <3>1
  <2> HIDE DEF B, l, n
  <2>3. l \in [1 .. n -> B]
    BY <2>1, <2>2
  <2>4. l \in Seq(B) /\ Len(l) = n
    BY <2>1, <2>3
  <2> QED
    BY <2>4 DEF l, n
<1> HIDE DEF B
<1>2. lists \in Seq(Seq(B)) /\ Len(lists) = G
  <2>1. lists = [g \in 1 .. G |-> lists[g]]
    BY DEF Listing
  <2>2. lists \in [1 .. G -> Seq(B)]
    BY <1>1, <2>1
  <2> QED
    BY <2>2
<1>3. t \in Seq(B) /\ \E of, in : JoinedFrom(t, lists, of, in, G)
  BY <1>2, ConcatenatedIs
<1> HIDE DEF t
<1>4. Len(t) \in Nat /\ t = [i \in 1 .. Len(t) |-> t[i]]
  BY <1>3
<1> QED
  BY <1>1, <1>2, <1>3, <1>4, Zenon DEF Listing, t

\* The lines of the audio: each rendition's, once.
AudioPart(t, lines, rows, N, at) ==
  /\ Len(t) \in Nat /\ Listing(t, Len(t))
  /\ \A i \in 1 .. Len(t) : at[i] \in 1 .. N /\ t[i] = AudioLine(lines, at[i], rows[at[i]])
  /\ \A i, j \in 1 .. Len(t) : at[i] = at[j] => i = j
  /\ \A n \in 1 .. N : \E i \in 1 .. Len(t) : at[i] = n

\* The lists of it, a group's each.
AudioLists(lines, rows, order) ==
  LET groups == GroupsInOrder(rows)
  IN [g \in DOMAIN groups |-> IF groups[g] = "none" THEN <<>> ELSE
        [p \in DOMAIN order[groups[g]] |-> AudioLine(lines, order[groups[g]][p], rows[order[groups[g]][p]])]]

\* They are put together so.
LEMMA AudioLines ==
  ASSUME NEW rows, NEW N \in Nat, IsAudio(rows, N), NEW lines, NEW order,
         \A n \in 1 .. N : LinesFor(order[rows[n].group], rows, N, rows[n].group)
  PROVE  \E at : AudioPart(Concatenated(AudioLists(lines, rows, order)), lines, rows, N, at)
<1> DEFINE gs == GroupsInOrder(rows)
           G == Len(gs)
           lists == AudioLists(lines, rows, order)
           Line(n) == AudioLine(lines, n, rows[n])
           t == Concatenated(lists)
           length == [g \in 1 .. G |-> IF gs[g] = "none" THEN 0 ELSE Len(order[gs[g]])]
<1>1. /\ gs \in Seq(AudioGroups \cup {"none"})
      /\ \A g, h \in 1 .. G : gs[g] = gs[h] => g = h
      /\ \A n \in 1 .. N : \E g \in 1 .. G : gs[g] = rows[n].group
      /\ \A g \in 1 .. G : gs[g] # "none" => \E n \in 1 .. N : rows[n].group = gs[g]
  BY GroupsListed, Zenon DEF GroupsStand
<1>2. lists = [g \in DOMAIN gs |-> IF gs[g] = "none" THEN <<>> ELSE [p \in DOMAIN order[gs[g]] |-> Line(order[gs[g]][p])]]
  BY Zenon DEF AudioLists
<1> HIDE DEF gs, lists, Line, t
<1>3. G \in Nat /\ DOMAIN gs = 1 .. G
  BY <1>1
<1> HIDE DEF G
<1>4. ASSUME NEW g \in 1 .. G, gs[g] # "none"  PROVE LinesFor(order[gs[g]], rows, N, gs[g])
  BY <1>1, <1>4
<1>5. length \in [1 .. G -> Nat] /\ \A g \in 1 .. G : length[g] = IF gs[g] = "none" THEN 0 ELSE Len(order[gs[g]])
  <2>1. \A g \in 1 .. G : gs[g] # "none" => Len(order[gs[g]]) \in Nat
    <3> SUFFICES ASSUME NEW g \in 1 .. G, gs[g] # "none"  PROVE Len(order[gs[g]]) \in Nat
      OBVIOUS
    <3>1. order[gs[g]] \in Seq(1 .. N)
      BY <1>4, Zenon DEF LinesFor
    <3> QED
      BY <3>1
  <2> QED
    BY <2>1
<1> HIDE DEF length
<1>6. \A g \in 1 .. G : lists[g] = IF gs[g] = "none" THEN <<>> ELSE [p \in DOMAIN order[gs[g]] |-> Line(order[gs[g]][p])]
  BY <1>2, <1>3
<1>7. Listing(lists, G)
  BY <1>2, <1>3 DEF Listing
<1>8. ASSUME NEW g \in 1 .. G
      PROVE  /\ Listing(lists[g], length[g])
             /\ length[g] # 0 => gs[g] # "none"
             /\ gs[g] # "none" => \A p \in 1 .. length[g] : lists[g][p] = Line(order[gs[g]][p])
  <2>1. CASE gs[g] = "none"
    <3>1. lists[g] = <<>> /\ length[g] = 0
      BY <1>5, <1>6, <2>1, Zenon
    <3>2. <<>> = [i \in 1 .. 0 |-> <<>>[i]]
      OBVIOUS
    <3> QED
      BY <2>1, <3>1, <3>2 DEF Listing
  <2>2. CASE gs[g] # "none"
    <3> DEFINE o == order[gs[g]]
    <3>1. DOMAIN o = 1 .. length[g]
      BY <1>4, <1>5, <2>2, Zenon DEF LinesFor
    <3>2. lists[g] = [p \in 1 .. length[g] |-> Line(o[p])]
      BY <1>6, <2>2, <3>1, Zenon
    <3> HIDE DEF o
    <3>3. \A p \in 1 .. length[g] : lists[g][p] = Line(o[p])
      BY <3>2
    <3>4. lists[g] = [p \in 1 .. length[g] |-> lists[g][p]]
      BY <3>2
    <3> QED
      BY <2>2, <3>3, <3>4, Zenon DEF Listing, o
  <2> QED
    BY <2>1, <2>2
<1>9. /\ Len(t) \in Nat /\ Listing(t, Len(t)) /\ \A g \in 1 .. G : Len(lists[g]) = length[g]
      /\ \E of, in : JoinedFrom(t, lists, of, in, G)
  BY <1>3, <1>5, <1>7, <1>8, ListsJoined DEF t
<1>10. PICK of, in : JoinedFrom(t, lists, of, in, G)
  BY <1>9
<1>11. /\ \A i \in 1 .. Len(t) : of[i] \in 1 .. G /\ in[i] \in 1 .. length[of[i]] /\ t[i] = lists[of[i]][in[i]]
       /\ \A i, j \in 1 .. Len(t) : of[i] = of[j] /\ in[i] = in[j] => i = j
       /\ \A g \in 1 .. G : \A p \in 1 .. length[g] : \E i \in 1 .. Len(t) : of[i] = g /\ in[i] = p
  <2>1. /\ \A i \in 1 .. Len(t) : of[i] \in 1 .. G /\ in[i] \in 1 .. Len(lists[of[i]]) /\ t[i] = lists[of[i]][in[i]]
        /\ \A i, j \in 1 .. Len(t) : of[i] = of[j] /\ in[i] = in[j] => i = j
        /\ \A g \in 1 .. G : \A p \in 1 .. Len(lists[g]) : \E i \in 1 .. Len(t) : of[i] = g /\ in[i] = p
    BY <1>10, Zenon DEF JoinedFrom
  <2>2. \A g \in 1 .. G : Len(lists[g]) = length[g]
    BY <1>9, Zenon
  <2> QED
    BY <2>1, <2>2
<1> DEFINE at == [i \in 1 .. Len(t) |-> order[gs[of[i]]][in[i]]]
<1>12. ASSUME NEW i \in 1 .. Len(t)
       PROVE  /\ gs[of[i]] # "none" /\ of[i] \in 1 .. G /\ in[i] \in 1 .. Len(order[gs[of[i]]])
              /\ LinesFor(order[gs[of[i]]], rows, N, gs[of[i]])
              /\ at[i] = order[gs[of[i]]][in[i]]
              /\ at[i] \in 1 .. N /\ t[i] = Line(at[i]) /\ rows[at[i]].group = gs[of[i]]
  <2> DEFINE g == of[i]
             p == in[i]
  <2>1. g \in 1 .. G /\ p \in 1 .. length[g] /\ t[i] = lists[g][p]
    BY <1>11, Zenon
  <2>2. length[g] # 0
    BY <1>5, <2>1
  <2> HIDE DEF g, p
  <2>3. gs[g] # "none" /\ t[i] = Line(order[gs[g]][p])
    BY <1>8, <2>1, <2>2, Zenon
  <2>4. LinesFor(order[gs[g]], rows, N, gs[g]) /\ p \in 1 .. Len(order[gs[g]])
    BY <1>4, <1>5, <2>1, <2>3, Zenon
  <2>5. order[gs[g]][p] \in 1 .. N /\ rows[order[gs[g]][p]].group = gs[g]
    <3>1. order[gs[g]] \in Seq(1 .. N) /\ rows[order[gs[g]][p]].group = gs[g]
      BY <2>4, Zenon DEF LinesFor
    <3> HIDE DEF gs
    <3> QED
      BY <2>4, <3>1
  <2>6. at[i] = order[gs[g]][p]
    BY DEF g, p
  <2> HIDE DEF at
  <2> QED
    BY <2>1, <2>3, <2>4, <2>5, <2>6, Zenon DEF g, p
<1> HIDE DEF at
<1>13. ASSUME NEW i \in 1 .. Len(t), NEW j \in 1 .. Len(t), at[i] = at[j]  PROVE i = j
  <2>1. gs[of[i]] = gs[of[j]]
    BY <1>12, <1>13, Zenon
  <2>2. of[i] = of[j]
    BY <1>1, <1>12, <2>1, Zenon DEF G
  <2>3. order[gs[of[i]]][in[i]] = order[gs[of[i]]][in[j]]
    BY <1>12, <1>13, <2>2, Zenon
  <2>4. in[i] = in[j]
    <3>1. in[i] \in 1 .. Len(order[gs[of[i]]]) /\ in[j] \in 1 .. Len(order[gs[of[i]]])
      BY <1>12, <2>2, Zenon
    <3>2. LinesFor(order[gs[of[i]]], rows, N, gs[of[i]])
      BY <1>12, Zenon
    <3> QED
      BY <2>3, <3>1, <3>2, Zenon DEF LinesFor
  <2> QED
    BY <1>11, <2>2, <2>4, Zenon
<1>14. ASSUME NEW n \in 1 .. N  PROVE \E i \in 1 .. Len(t) : at[i] = n
  <2>1. PICK g \in 1 .. G : gs[g] = rows[n].group
    BY <1>1, Zenon DEF G
  <2>2. gs[g] # "none"
    <3>1. rows[n].group \in AudioGroups
      BY Zenon DEF IsAudio
    <3> QED
      BY <2>1, <3>1 DEF AudioGroups
  <2>3. PICK p \in 1 .. Len(order[gs[g]]) : order[gs[g]][p] = n
    BY <1>4, <2>1, <2>2, Zenon DEF LinesFor
  <2>4. PICK i \in 1 .. Len(t) : of[i] = g /\ in[i] = p
    <3>1. length[g] = Len(order[gs[g]])
      BY <1>5, <2>2, Zenon
    <3> QED
      BY <1>11, <3>1, Zenon
  <2> QED
    BY <1>12, <2>3, <2>4, Zenon
<1>15. AudioPart(t, lines, rows, N, at)
  <2>1. \A i \in 1 .. Len(t) : at[i] \in 1 .. N /\ t[i] = AudioLine(lines, at[i], rows[at[i]])
    BY <1>12, Zenon DEF Line
  <2> QED
    BY <1>9, <1>13, <1>14, <2>1, Zenon DEF AudioPart
<1> QED
  BY <1>15 DEF t, lists

\* The lines of the variants: one of each rung in each group.
VariantPart(t, lines, rungs, R, rows, subs, peaks, gs, of, in) ==
  /\ Len(t) \in Nat /\ Listing(t, Len(t))
  /\ \A i \in 1 .. Len(t) :
       /\ of[i] \in 1 .. Len(gs) /\ in[i] \in 1 .. R
       /\ t[i] = VariantLine(lines, rungs[in[i]], in[i], gs[of[i]], rows, subs, peaks)
  /\ \A i, j \in 1 .. Len(t) : of[i] = of[j] /\ in[i] = in[j] => i = j
  /\ \A g \in 1 .. Len(gs) : \A v \in 1 .. R : \E i \in 1 .. Len(t) : of[i] = g /\ in[i] = v

VariantLists(lines, rungs, rows, subs, peaks) ==
  LET groups == GroupsInOrder(rows)
  IN [g \in DOMAIN groups |-> [v \in DOMAIN rungs |->
        VariantLine(lines, rungs[v], v, groups[g], rows, subs, peaks)]]

LEMMA VariantLines ==
  ASSUME NEW gs, NEW G \in Nat, DOMAIN gs = 1 .. G, Len(gs) = G, NEW rows, gs = GroupsInOrder(rows), NEW lines,
         NEW rungs, NEW R \in Nat, DOMAIN rungs = 1 .. R, NEW subs, NEW peaks
  PROVE  \E of, in : VariantPart(Concatenated(VariantLists(lines, rungs, rows, subs, peaks)),
                                 lines, rungs, R, rows, subs, peaks, gs, of, in)
<1> DEFINE Line(g, v) == VariantLine(lines, rungs[v], v, gs[g], rows, subs, peaks)
           lists == VariantLists(lines, rungs, rows, subs, peaks)
           t == Concatenated(lists)
           length == [g \in 1 .. G |-> R]
<1>1. lists = [g \in 1 .. G |-> [v \in 1 .. R |-> Line(g, v)]]
  BY Zenon DEF VariantLists
<1> HIDE DEF Line, lists, t
<1>2. Listing(lists, G) /\ \A g \in 1 .. G : Listing(lists[g], R) /\ \A v \in 1 .. R : lists[g][v] = Line(g, v)
  BY <1>1 DEF Listing
<1>3. length \in [1 .. G -> Nat] /\ \A g \in 1 .. G : length[g] = R
  OBVIOUS
<1> HIDE DEF length
<1>4. \A g \in 1 .. G : Listing(lists[g], length[g])
  BY <1>2, <1>3, Zenon
<1>5. /\ Len(t) \in Nat /\ Listing(t, Len(t)) /\ \A g \in 1 .. G : Len(lists[g]) = length[g]
      /\ \E of, in : JoinedFrom(t, lists, of, in, G)
  BY <1>2, <1>3, <1>4, ListsJoined DEF t
<1>6. PICK of, in : JoinedFrom(t, lists, of, in, G)
  BY <1>5
<1>7. \A g \in 1 .. G : Len(lists[g]) = R
  BY <1>3, <1>5, Zenon
<1>8. /\ \A i \in 1 .. Len(t) : of[i] \in 1 .. G /\ in[i] \in 1 .. R /\ t[i] = lists[of[i]][in[i]]
      /\ \A i, j \in 1 .. Len(t) : of[i] = of[j] /\ in[i] = in[j] => i = j
      /\ \A g \in 1 .. G : \A p \in 1 .. R : \E i \in 1 .. Len(t) : of[i] = g /\ in[i] = p
  <2>1. /\ \A i \in 1 .. Len(t) : of[i] \in 1 .. G /\ in[i] \in 1 .. Len(lists[of[i]]) /\ t[i] = lists[of[i]][in[i]]
        /\ \A i, j \in 1 .. Len(t) : of[i] = of[j] /\ in[i] = in[j] => i = j
        /\ \A g \in 1 .. G : \A p \in 1 .. Len(lists[g]) : \E i \in 1 .. Len(t) : of[i] = g /\ in[i] = p
    BY <1>6, Zenon DEF JoinedFrom
  <2>2. ASSUME NEW i \in 1 .. Len(t)
        PROVE  of[i] \in 1 .. G /\ in[i] \in 1 .. R /\ t[i] = lists[of[i]][in[i]]
    <3>1. of[i] \in 1 .. G /\ in[i] \in 1 .. Len(lists[of[i]]) /\ t[i] = lists[of[i]][in[i]]
      BY <2>1, Zenon
    <3>2. Len(lists[of[i]]) = R
      BY <1>7, <3>1, Zenon
    <3> QED
      BY <3>1, <3>2, Zenon
  <2>3. ASSUME NEW g \in 1 .. G, NEW p \in 1 .. R
        PROVE  \E i \in 1 .. Len(t) : of[i] = g /\ in[i] = p
    <3>1. p \in 1 .. Len(lists[g])
      BY <1>7, Zenon
    <3> QED
      BY <2>1, <3>1, Zenon
  <2> QED
    BY <2>1, <2>2, <2>3, Zenon
<1>9. \A i \in 1 .. Len(t) : t[i] = Line(of[i], in[i])
  <2> SUFFICES ASSUME NEW i \in 1 .. Len(t)  PROVE t[i] = Line(of[i], in[i])
    OBVIOUS
  <2>1. of[i] \in 1 .. G /\ in[i] \in 1 .. R /\ t[i] = lists[of[i]][in[i]]
    BY <1>8, Zenon
  <2>2. lists[of[i]][in[i]] = Line(of[i], in[i])
    BY <1>2, <2>1, Zenon
  <2> QED
    BY <2>1, <2>2, Zenon
<1>10. \A i \in 1 .. Len(t) : t[i] = VariantLine(lines, rungs[in[i]], in[i], gs[of[i]], rows, subs, peaks)
  BY <1>9, Zenon DEF Line
<1>11. VariantPart(t, lines, rungs, R, rows, subs, peaks, gs, of, in)
  BY <1>5, <1>8, <1>10, Zenon DEF VariantPart
<1> QED
  BY <1>11 DEF t, lists

\* The lines of a master: the audio's, the subtitles', the variants', and
\* those of shaka's that are for seeking.
MasterParts(m, A, T, V, I, a, s, v, w) ==
  /\ a \in Nat /\ s \in Nat /\ v \in Nat /\ w \in Nat
  /\ DOMAIN m = 1 .. (((a + s) + v) + w)
  /\ \A i \in 1 .. a : m[i] = A[i]
  /\ \A k \in 1 .. s : m[a + k] = T[k]
  /\ \A k \in 1 .. v : m[(a + s) + k] = V[k]
  /\ \A k \in 1 .. w : m[((a + s) + v) + k] = I[k]

LEMMA FourParts ==
  ASSUME NEW a \in Nat, NEW s \in Nat, NEW v \in Nat, NEW w \in Nat,
         NEW A, Listing(A, a), NEW T, Listing(T, s), NEW V, Listing(V, v), NEW I, Listing(I, w)
  PROVE  MasterParts(((A \o T) \o V) \o I, A, T, V, I, a, s, v, w)
<1> DEFINE f == A \o T
           g == f \o V
           m == g \o I
<1>1. Joins(f, A, T, a, s)
  BY JoinedAt
<1>2. Listing(f, a + s) /\ a + s \in Nat
  BY <1>1 DEF Joins
<1> HIDE DEF f
<1>3. Joins(g, f, V, a + s, v)
  BY <1>2, JoinedAt
<1>4. Listing(g, (a + s) + v) /\ (a + s) + v \in Nat
  BY <1>2, <1>3 DEF Joins
<1> HIDE DEF g
<1>5. Joins(m, g, I, (a + s) + v, w)
  BY <1>4, JoinedAt
<1> HIDE DEF m
<1>6. DOMAIN m = 1 .. (((a + s) + v) + w)
  BY <1>5, Zenon DEF Joins
<1>7. ASSUME NEW i \in 1 .. a  PROVE m[i] = A[i]
  <2>1. i \in 1 .. (a + s) /\ i \in 1 .. ((a + s) + v)
    OBVIOUS
  <2> QED
    BY <1>1, <1>3, <1>5, <2>1, Zenon DEF Joins
<1>8. ASSUME NEW k \in 1 .. s  PROVE m[a + k] = T[k]
  <2>1. a + k \in 1 .. (a + s) /\ a + k \in 1 .. ((a + s) + v)
    OBVIOUS
  <2> QED
    BY <1>1, <1>3, <1>5, <2>1, Zenon DEF Joins
<1>9. ASSUME NEW k \in 1 .. v  PROVE m[(a + s) + k] = V[k]
  <2>1. (a + s) + k \in 1 .. ((a + s) + v)
    OBVIOUS
  <2> QED
    BY <1>3, <1>5, <2>1, Zenon DEF Joins
<1>10. \A k \in 1 .. w : m[((a + s) + v) + k] = I[k]
  BY <1>5, Zenon DEF Joins
<1>11. MasterParts(m, A, T, V, I, a, s, v, w)
  BY <1>6, <1>7, <1>8, <1>9, <1>10, Zenon DEF MasterParts
<1> QED
  BY <1>11 DEF m, g, f

(***************************************************************************)
(* What shaka tells of a group's codec.                                    *)
(***************************************************************************)

\* A line of a rung in a group tells the group's codec, after the rung's.
StreamTells(line) ==
  line.tag = "stream" /\ line.group \in AudioGroups => \E c : line.codecs = <<c, CodecOfGroup(line.group)>>

\* Lines that tell so.
LinesTell(lines) == \E B : lines \in Seq(B) /\ \A l \in B : StreamTells(l)

LEMMA TwoJoined ==
  ASSUME NEW c, NEW d
  PROVE  <<c>> \o <<d>> = <<c, d>>
<1> DEFINE t == <<c>> \o <<d>>
<1>1. Listing(<<c>>, 1) /\ Listing(<<d>>, 1)
  BY DEF Listing
<1>2. Joins(t, <<c>>, <<d>>, 1, 1)
  BY <1>1, JoinedAt
<1> HIDE DEF t
<1>3. t = [i \in 1 .. 2 |-> t[i]] /\ t[1] = c /\ t[2] = d
  <2>1. 1 + 1 = 2 /\ 1 \in 1 .. 1
    OBVIOUS
  <2>2. t[1] = <<c>>[1] /\ t[1 + 1] = <<d>>[1]
    BY <1>2, <2>1, Zenon DEF Joins
  <2>3. t = [i \in 1 .. (1 + 1) |-> t[i]]
    BY <1>2, Zenon DEF Joins, Listing
  <2> QED
    BY <2>1, <2>2, <2>3
<1>4. t = <<c, d>>
  BY <1>3
<1> QED
  BY <1>4 DEF t

\* shaka's do.
LEMMA ShakaTells ==
  ASSUME NEW rows, NEW N \in Nat, IsAudio(rows, N), NEW rungs, NEW R \in Nat, DOMAIN rungs = 1 .. R
  PROVE  LinesTell(ShakaMaster(rungs, rows))
<1> DEFINE gs == GroupsInOrder(rows)
           G == Len(gs)
           codec(g) == IF g = "none" THEN <<>> ELSE <<rows[Members(rows, g)[1]].codec>>
           media == [n \in DOMAIN rows |-> MediaInf(AudioDir(n), rows[n].ch)]
           lists == [g \in DOMAIN gs |-> [v \in DOMAIN rungs |->
                       StreamInf(Video(rungs[v]), <<rungs[v].codec>> \o codec(gs[g]), gs[g], 25)]]
           streams == Concatenated(lists)
           iframes == [v \in DOMAIN rungs |-> IFrameInf(Video(rungs[v]))]
           told == ShakaMaster(rungs, rows)
           length == [g \in 1 .. G |-> R]
<1>1. told = (media \o streams) \o iframes
  BY Zenon DEF ShakaMaster
<1>2. DOMAIN rows = 1 .. N /\ \A n \in 1 .. N : rows[n].codec = CodecOfGroup(rows[n].group)
  BY DEF IsAudio
<1>3. /\ gs \in Seq(AudioGroups \cup {"none"})
      /\ \A g \in 1 .. G : gs[g] # "none" => \E n \in 1 .. N : rows[n].group = gs[g]
  BY GroupsListed, Zenon DEF GroupsStand
<1> HIDE DEF gs, told
<1>4. G \in Nat /\ DOMAIN gs = 1 .. G
  BY <1>3
<1> HIDE DEF G
<1>5. ASSUME NEW g \in 1 .. G, gs[g] \in AudioGroups  PROVE codec(gs[g]) = <<CodecOfGroup(gs[g])>>
  <2> DEFINE ns == Members(rows, gs[g])
  <2>1. gs[g] # "none"
    BY <1>5 DEF AudioGroups
  <2>2. PICK n \in 1 .. N : rows[n].group = gs[g]
    BY <1>3, <2>1, Zenon DEF G
  <2>3. /\ ns \in Seq(1 .. N)
        /\ \A k \in 1 .. Len(ns) : rows[ns[k]].group = gs[g]
        /\ \E k \in 1 .. Len(ns) : ns[k] = n
    BY <2>2, MembersAre
  <2> HIDE DEF ns
  <2>4. 1 \in 1 .. Len(ns) /\ ns[1] \in 1 .. N
    BY <2>3
  <2>5. rows[ns[1]].codec = CodecOfGroup(gs[g])
    BY <1>2, <2>3, <2>4, Zenon
  <2> QED
    BY <2>1, <2>5, Zenon DEF ns
<1>6. ASSUME NEW g \in 1 .. G, NEW v \in 1 .. R  PROVE StreamTells(lists[g][v])
  <2> DEFINE line == StreamInf(Video(rungs[v]), <<rungs[v].codec>> \o codec(gs[g]), gs[g], 25)
  <2>1. lists[g][v] = line
    BY <1>4
  <2>2. line.group = gs[g] /\ line.codecs = <<rungs[v].codec>> \o codec(gs[g])
    BY DEF StreamInf
  <2> HIDE DEF line, codec
  <2>3. ASSUME gs[g] \in AudioGroups
        PROVE  line.codecs = <<rungs[v].codec, CodecOfGroup(gs[g])>>
    <3> DEFINE c == rungs[v].codec
               d == CodecOfGroup(gs[g])
    <3>1. line.codecs = <<c>> \o <<d>>
      BY <1>5, <2>2, <2>3, Zenon
    <3> HIDE DEF c, d
    <3>2. <<c>> \o <<d>> = <<c, d>>
      BY TwoJoined
    <3> QED
      BY <3>1, <3>2, Zenon DEF c, d
  <2>4. StreamTells(line)
    BY <2>2, <2>3, Zenon DEF StreamTells
  <2> QED
    BY <2>1, <2>4, Zenon
<1>7. Listing(lists, G) /\ \A g \in 1 .. G : Listing(lists[g], R)
  <2> HIDE DEF codec
  <2> QED
    BY <1>4 DEF Listing
<1>8. /\ Listing(media, N) /\ \A n \in 1 .. N : StreamTells(media[n])
  BY <1>2 DEF Listing, StreamTells, MediaInf
<1>9. /\ Listing(iframes, R) /\ \A v \in 1 .. R : StreamTells(iframes[v])
  BY DEF Listing, StreamTells, IFrameInf
<1>10. length \in [1 .. G -> Nat] /\ \A g \in 1 .. G : length[g] = R
  OBVIOUS
<1> HIDE DEF lists, media, iframes, streams, length
<1>11. \A g \in 1 .. G : Listing(lists[g], length[g])
  BY <1>7, <1>10, Zenon
<1>12. /\ Len(streams) \in Nat /\ Listing(streams, Len(streams)) /\ \A g \in 1 .. G : Len(lists[g]) = length[g]
       /\ \E of, in : JoinedFrom(streams, lists, of, in, G)
  BY <1>4, <1>7, <1>10, <1>11, ListsJoined DEF streams
<1> DEFINE M == Len(streams)
<1>13. \A i \in 1 .. M : StreamTells(streams[i])
  <2>1. PICK of, in : JoinedFrom(streams, lists, of, in, G)
    BY <1>12
  <2> SUFFICES ASSUME NEW i \in 1 .. M  PROVE StreamTells(streams[i])
    OBVIOUS
  <2>2. of[i] \in 1 .. G /\ in[i] \in 1 .. Len(lists[of[i]]) /\ streams[i] = lists[of[i]][in[i]]
    BY <2>1, Zenon DEF JoinedFrom
  <2>3. in[i] \in 1 .. R
    BY <1>10, <1>12, <2>2, Zenon
  <2> QED
    BY <1>6, <2>2, <2>3, Zenon
<1>14. Joins(media \o streams, media, streams, N, M)
  BY <1>8, <1>12, JoinedAt
<1> DEFINE both == media \o streams
<1>15. Listing(both, N + M) /\ N + M \in Nat
  BY <1>12, <1>14 DEF Joins
<1> HIDE DEF both
<1>16. Joins(both \o iframes, both, iframes, N + M, R)
  BY <1>9, <1>15, JoinedAt
<1>17. Joins(told, both, iframes, N + M, R) /\ Joins(both, media, streams, N, M)
  BY <1>1, <1>14, <1>16, Zenon DEF both
<1> HIDE DEF M
<1>18. M \in Nat
  BY <1>12 DEF M
<1>19. ASSUME NEW i \in 1 .. ((N + M) + R)  PROVE StreamTells(told[i])
  <2>1. CASE i \in 1 .. N
    <3>1. i \in 1 .. (N + M)
      BY <1>18, <2>1
    <3> QED
      BY <1>8, <1>17, <2>1, <3>1, Zenon DEF Joins
  <2>2. CASE i \in 1 .. (N + M) /\ i \notin 1 .. N
    <3>1. i - N \in 1 .. M /\ N + (i - N) = i
      BY <1>18, <2>2
    <3>2. both[i] = streams[i - N]
      BY <1>17, <3>1 DEF Joins
    <3> QED
      BY <1>13, <1>17, <2>2, <3>1, <3>2, Zenon DEF Joins
  <2>3. CASE i \notin 1 .. (N + M)
    <3>1. i - (N + M) \in 1 .. R /\ (N + M) + (i - (N + M)) = i
      BY <1>18, <2>3
    <3>2. told[i] = iframes[i - (N + M)]
      BY <1>17, <3>1 DEF Joins
    <3> QED
      BY <1>9, <3>1, <3>2, Zenon
  <2> QED
    BY <2>1, <2>2, <2>3
<1> DEFINE B == {told[i] : i \in 1 .. ((N + M) + R)}
<1>20. told \in Seq(B)
  <2> DEFINE K == (N + M) + R
  <2>1. K \in Nat /\ told = [i \in 1 .. K |-> told[i]]
    BY <1>17, <1>18 DEF Joins, Listing
  <2> HIDE DEF K
  <2>2. told \in Seq({told[i] : i \in 1 .. K})
    BY <2>1
  <2> QED
    BY <2>2 DEF K
<1>21. \A l \in B : StreamTells(l)
  BY <1>19
<1> HIDE DEF B
<1>22. LinesTell(told)
  BY <1>20, <1>21, Zenon DEF LinesTell
<1> QED
  BY <1>22 DEF told

\* Those that are left of them do, and those for seeking are no others.
LEMMA LeftTell ==
  ASSUME NEW lines, LinesTell(lines), NEW places
  PROVE  LinesTell(Kept(lines, places))
<1>1. PICK B : lines \in Seq(B) /\ \A l \in B : StreamTells(l)
  BY DEF LinesTell
<1>2. Kept(lines, places) \in Seq(B)
  BY <1>1, KeptIs
<1> QED
  BY <1>1, <1>2, Zenon DEF LinesTell

LEMMA SeekLines ==
  ASSUME NEW lines, LinesTell(lines)
  PROVE  LET s == IFrames(lines)
         IN Len(s) \in Nat /\ Listing(s, Len(s)) /\ \A k \in 1 .. Len(s) : s[k].tag = "iframe"
<1> DEFINE places == {i \in DOMAIN lines : lines[i].tag = "iframe"}
           s == IFrames(lines)
<1>1. PICK B : lines \in Seq(B)
  BY DEF LinesTell
<1>2. s = Kept(lines, places)
  BY Zenon DEF IFrames
<1> HIDE DEF s
<1>3. s \in Seq(B) /\ \E at : KeptAt(s, lines, places, at, Len(lines))
  BY <1>1, <1>2, KeptIs
<1>4. Len(s) \in Nat /\ s = [i \in 1 .. Len(s) |-> s[i]]
  BY <1>3
<1>5. PICK at : KeptAt(s, lines, places, at, Len(lines))
  BY <1>3
<1>6. \A k \in 1 .. Len(s) : at[k] \in places /\ s[k] = lines[at[k]]
  BY <1>5, Zenon DEF KeptAt
<1>7. \A k \in 1 .. Len(s) : s[k].tag = "iframe"
  BY <1>6
<1> QED
  BY <1>4, <1>7, Zenon DEF Listing, s

\* So a rendition's codec is its group's, whatever is left of the lines.
LEMMA AudioCodecIs ==
  ASSUME NEW lines, LinesTell(lines), NEW entry, entry.group \in AudioGroups,
         entry.codec = CodecOfGroup(entry.group)
  PROVE  AudioCodec(lines, entry) = entry.codec
<1> DEFINE g == entry.group
           places == {i \in DOMAIN lines : /\ lines[i].tag = "stream" /\ lines[i].group = g
                                           /\ Len(lines[i].codecs) > 1}
           codecs == GroupCodecs(lines, g)
           l == lines[Min(places)]
<1>1. PICK B : lines \in Seq(B) /\ \A x \in B : StreamTells(x)
  BY DEF LinesTell
<1>2. codecs = IF Earliest(lines, places) = {} THEN <<>>
               ELSE Tail((CHOOSE x \in Earliest(lines, places) : TRUE).codecs)
  BY Zenon DEF GroupCodecs
<1>3. CASE places = {}
  <2>1. codecs = <<>>
    BY <1>2, <1>3 DEF Earliest
  <2>2. AudioCodec(lines, entry) = IF g = "audio" THEN "mp4a" ELSE entry.codec
    BY <2>1 DEF AudioCodec
  <2> QED
    BY <2>2 DEF CodecOfGroup
<1>4. CASE places # {}
  <2>1. places \in SUBSET Nat /\ \A i \in places : lines[i] \in B
    BY <1>1
  <2>2. Min(places) \in places
    <3> HIDE DEF places
    <3>1. PICK x \in places : \A y \in places : x <= y
      BY <1>4, <2>1, LeastNumber
    <3> QED
      BY <2>1, <3>1, MinIs
  <2>3. Earliest(lines, places) = {l}
    BY <1>4, Zenon DEF Earliest
  <2> HIDE DEF codecs
  <2>4. codecs = Tail(l.codecs)
    <3>1. \A x : {x} # {} /\ (CHOOSE y \in {x} : TRUE) = x
      OBVIOUS
    <3> HIDE DEF l, places
    <3> QED
      BY <1>2, <2>3, <3>1
  <2>5. l.tag = "stream" /\ l.group = g /\ l \in B
    BY <2>1, <2>2
  <2> HIDE DEF l
  <2>6. PICK c : l.codecs = <<c, CodecOfGroup(g)>>
    BY <1>1, <2>5, Zenon DEF StreamTells
  <2>7. codecs = <<CodecOfGroup(g)>>
    BY <2>4, <2>6
  <2>8. codecs # <<>> /\ codecs[1] = CodecOfGroup(g)
    BY <2>7
  <2> QED
    BY <2>8, Zenon DEF AudioCodec, codecs
<1> QED
  BY <1>3, <1>4

(***************************************************************************)
(* Where the lines of a master are.                                        *)
(***************************************************************************)

At(m, tag) == {i \in DOMAIN m : m[i].tag = tag}

LEMMA MasterPlaces ==
  ASSUME NEW m, NEW A, NEW T, NEW V, NEW I, NEW a, NEW s, NEW v, NEW w,
         MasterParts(m, A, T, V, I, a, s, v, w),
         \A i \in 1 .. a : A[i].tag = "audio", \A i \in 1 .. s : T[i].tag = "subtitles",
         \A i \in 1 .. v : V[i].tag = "variant", \A i \in 1 .. w : I[i].tag = "iframe"
  PROVE  /\ At(m, "audio") = 1 .. a
         /\ At(m, "subtitles") = (a + 1) .. (a + s)
         /\ At(m, "variant") = ((a + s) + 1) .. ((a + s) + v)
<1> DEFINE D == 1 .. (((a + s) + v) + w)
           As == 1 .. a
           Ts == (a + 1) .. (a + s)
           Vs == ((a + s) + 1) .. ((a + s) + v)
           Ss == (((a + s) + v) + 1) .. (((a + s) + v) + w)
<1>1. a \in Nat /\ s \in Nat /\ v \in Nat /\ w \in Nat /\ DOMAIN m = D
  BY Zenon DEF MasterParts
<1>2. /\ \A i \in As : i \in D
      /\ \A i \in Ts : i \in D /\ i - a \in 1 .. s /\ a + (i - a) = i
      /\ \A i \in Vs : i \in D /\ i - (a + s) \in 1 .. v /\ (a + s) + (i - (a + s)) = i
      /\ \A i \in Ss : i - ((a + s) + v) \in 1 .. w /\ ((a + s) + v) + (i - ((a + s) + v)) = i
      /\ \A i \in D : i \in As \/ i \in Ts \/ i \in Vs \/ i \in Ss
  BY <1>1
<1>3. \A i \in As : m[i].tag = "audio"
  BY Zenon DEF MasterParts
<1>4. \A i \in Ts : m[i].tag = "subtitles"
  <2> SUFFICES ASSUME NEW i \in Ts  PROVE m[i].tag = "subtitles"
    OBVIOUS
  <2>1. m[a + (i - a)] = T[i - a] /\ T[i - a].tag = "subtitles"
    BY <1>2, Zenon DEF MasterParts
  <2> QED
    BY <1>2, <2>1, Zenon
<1>5. \A i \in Vs : m[i].tag = "variant"
  <2> SUFFICES ASSUME NEW i \in Vs  PROVE m[i].tag = "variant"
    OBVIOUS
  <2>1. m[(a + s) + (i - (a + s))] = V[i - (a + s)] /\ V[i - (a + s)].tag = "variant"
    BY <1>2, Zenon DEF MasterParts
  <2> QED
    BY <1>2, <2>1, Zenon
<1>6. \A i \in Ss : m[i].tag = "iframe"
  <2> SUFFICES ASSUME NEW i \in Ss  PROVE m[i].tag = "iframe"
    OBVIOUS
  <2>1. m[((a + s) + v) + (i - ((a + s) + v))] = I[i - ((a + s) + v)] /\ I[i - ((a + s) + v)].tag = "iframe"
    BY <1>2, Zenon DEF MasterParts
  <2> QED
    BY <1>2, <2>1, Zenon
<1> HIDE DEF D, As, Ts, Vs, Ss
<1>7. At(m, "audio") = As
  BY <1>1, <1>2, <1>3, <1>4, <1>5, <1>6 DEF At
<1>8. At(m, "subtitles") = Ts
  BY <1>1, <1>2, <1>3, <1>4, <1>5, <1>6 DEF At
<1>9. At(m, "variant") = Vs
  BY <1>1, <1>2, <1>3, <1>4, <1>5, <1>6 DEF At
<1> QED
  BY <1>7, <1>8, <1>9, Zenon DEF As, Ts, Vs

\* What a master of these rungs, renditions and subtitles says.
MasterSays(m, lines, rungs, R, rows, N, subs, s, peaks, gs, who, of, in) ==
  /\ IsFiniteSet(DOMAIN m)
  /\ \A i \in At(m, "audio") : who[i] \in 1 .. N /\ m[i] = AudioLine(lines, who[i], rows[who[i]])
  /\ \A i, j \in At(m, "audio") : who[i] = who[j] => i = j
  /\ \A n \in 1 .. N : \E i \in At(m, "audio") : who[i] = n
  /\ Cardinality(At(m, "subtitles")) = s
  /\ \A i \in At(m, "subtitles") : \E k \in 1 .. s : m[i] = TextLine(subs[k])
  /\ \A i \in At(m, "variant") :
       /\ of[i] \in 1 .. Len(gs) /\ in[i] \in 1 .. R
       /\ m[i] = VariantLine(lines, rungs[in[i]], in[i], gs[of[i]], rows, subs, peaks)
  /\ \A i, j \in At(m, "variant") : of[i] = of[j] /\ in[i] = in[j] => i = j
  /\ \A g \in 1 .. Len(gs) : \A v \in 1 .. R : \E i \in At(m, "variant") : of[i] = g /\ in[i] = v

\* So does the one that is built.
LEMMA MasterBuilt ==
  ASSUME NEW rows, NEW N \in Nat, IsAudio(rows, N), NEW lines, LinesTell(lines), NEW order,
         \A n \in 1 .. N : LinesFor(order[rows[n].group], rows, N, rows[n].group),
         NEW rungs, NEW R \in Nat, DOMAIN rungs = 1 .. R,
         NEW subs, NEW s \in Nat, DOMAIN subs = 1 .. s, NEW peaks
  PROVE  \E who, of, in : MasterSays(BuildMaster(lines, rungs, rows, order, subs, peaks), lines, rungs, R, rows, N,
                                     subs, s, peaks, GroupsInOrder(rows), who, of, in)
<1> DEFINE gs == GroupsInOrder(rows)
           A == Concatenated(AudioLists(lines, rows, order))
           T == [k \in DOMAIN subs |-> TextLine(subs[k])]
           V == Concatenated(VariantLists(lines, rungs, rows, subs, peaks))
           I == IFrames(lines)
           m == BuildMaster(lines, rungs, rows, order, subs, peaks)
           a == Len(A)
           v == Len(V)
           w == Len(I)
<1>1. m = ((A \o T) \o V) \o I
  BY Zenon DEF BuildMaster, AudioLists, VariantLists
<1>2. PICK at : AudioPart(A, lines, rows, N, at)
  BY AudioLines
<1>3. DOMAIN gs = 1 .. Len(gs) /\ Len(gs) \in Nat
  <2>1. gs \in Seq(AudioGroups \cup {"none"})
    BY GroupsListed, Zenon DEF GroupsStand
  <2> HIDE DEF gs
  <2> QED
    BY <2>1
<1>4. PICK vg, vn : VariantPart(V, lines, rungs, R, rows, subs, peaks, gs, vg, vn)
  <2>1. gs = GroupsInOrder(rows)
    OBVIOUS
  <2> HIDE DEF gs
  <2> QED
    BY <1>3, <2>1, VariantLines
<1>5. Len(I) \in Nat /\ Listing(I, Len(I)) /\ \A k \in 1 .. Len(I) : I[k].tag = "iframe"
  BY SeekLines
<1>6. Listing(T, s) /\ \A k \in 1 .. s : T[k] = TextLine(subs[k])
  BY DEF Listing
<1> HIDE DEF gs, A, T, V, I, m
<1>7. a \in Nat /\ Listing(A, a) /\ v \in Nat /\ Listing(V, v) /\ w \in Nat /\ Listing(I, w)
  BY <1>2, <1>4, <1>5, Zenon DEF AudioPart, VariantPart
<1> HIDE DEF a, v, w
<1>8. MasterParts(m, A, T, V, I, a, s, v, w)
  BY <1>1, <1>6, <1>7, FourParts
<1>9. /\ \A i \in 1 .. a : A[i].tag = "audio"
      /\ \A i \in 1 .. s : T[i].tag = "subtitles"
      /\ \A i \in 1 .. v : V[i].tag = "variant"
      /\ \A i \in 1 .. w : I[i].tag = "iframe"
  <2>1. \A n : AudioLine(lines, n, rows[n]).tag = "audio"
    BY DEF AudioLine
  <2>2. \A k : TextLine(subs[k]).tag = "subtitles"
    BY DEF TextLine
  <2>3. \A n, g : VariantLine(lines, rungs[n], n, g, rows, subs, peaks).tag = "variant"
    BY DEF VariantLine
  <2>4. \A i \in 1 .. a : A[i].tag = "audio"
    <3> SUFFICES ASSUME NEW i \in 1 .. a  PROVE A[i].tag = "audio"
      OBVIOUS
    <3>1. A[i] = AudioLine(lines, at[i], rows[at[i]])
      BY <1>2, Zenon DEF AudioPart, a
    <3> QED
      BY <2>1, <3>1, Zenon
  <2>5. \A i \in 1 .. v : V[i].tag = "variant"
    <3> SUFFICES ASSUME NEW i \in 1 .. v  PROVE V[i].tag = "variant"
      OBVIOUS
    <3>1. V[i] = VariantLine(lines, rungs[vn[i]], vn[i], gs[vg[i]], rows, subs, peaks)
      BY <1>4, Zenon DEF VariantPart, v
    <3> QED
      BY <2>3, <3>1, Zenon
  <2>6. \A i \in 1 .. s : T[i].tag = "subtitles"
    BY <1>6, <2>2, Zenon
  <2> QED
    BY <1>5, <2>4, <2>5, <2>6, Zenon DEF w
<1>10. /\ At(m, "audio") = 1 .. a
       /\ At(m, "subtitles") = (a + 1) .. (a + s)
       /\ At(m, "variant") = ((a + s) + 1) .. ((a + s) + v)
  BY <1>8, <1>9, MasterPlaces
<1>11. IsFiniteSet(DOMAIN m)
  <2>1. DOMAIN m = 1 .. (((a + s) + v) + w)
    BY <1>8, Zenon DEF MasterParts
  <2>2. ((a + s) + v) + w \in Int /\ 1 \in Int
    BY <1>7
  <2> QED
    BY <2>1, <2>2, FS_Interval
<1>12. \A i \in 1 .. a : m[i] = A[i]
  BY <1>8, Zenon DEF MasterParts
<1>13. /\ \A i \in 1 .. a : at[i] \in 1 .. N /\ m[i] = AudioLine(lines, at[i], rows[at[i]])
       /\ \A i, j \in 1 .. a : at[i] = at[j] => i = j
       /\ \A n \in 1 .. N : \E i \in 1 .. a : at[i] = n
  BY <1>2, <1>12, Zenon DEF AudioPart, a
<1>14. Cardinality(At(m, "subtitles")) = s
  <2>1. a + 1 \in Int /\ a + s \in Int
    BY <1>7
  <2>2. Cardinality((a + 1) .. (a + s)) = IF a + 1 > a + s THEN 0 ELSE (a + s) - (a + 1) + 1
    BY <2>1, FS_Interval
  <2> QED
    BY <1>7, <1>10, <2>2
<1>15. \A i \in At(m, "subtitles") : \E k \in 1 .. s : m[i] = TextLine(subs[k])
  <2> SUFFICES ASSUME NEW i \in (a + 1) .. (a + s)  PROVE \E k \in 1 .. s : m[i] = TextLine(subs[k])
    BY <1>10
  <2>1. i - a \in 1 .. s /\ a + (i - a) = i
    BY <1>7
  <2>2. m[a + (i - a)] = T[i - a]
    BY <1>8, <2>1, Zenon DEF MasterParts
  <2> QED
    BY <1>6, <2>1, <2>2, Zenon
<1> DEFINE b == a + s
           Vs == (b + 1) .. (b + v)
           of == [i \in Vs |-> vg[i - b]]
           in == [i \in Vs |-> vn[i - b]]
<1>16. b \in Nat
  BY <1>7
<1>17. \A k \in 1 .. v : m[b + k] = V[k]
  BY <1>8, Zenon DEF MasterParts
<1>18. /\ \A i \in 1 .. v : vg[i] \in 1 .. Len(gs) /\ vn[i] \in 1 .. R
                            /\ V[i] = VariantLine(lines, rungs[vn[i]], vn[i], gs[vg[i]], rows, subs, peaks)
       /\ \A i, j \in 1 .. v : vg[i] = vg[j] /\ vn[i] = vn[j] => i = j
       /\ \A g \in 1 .. Len(gs) : \A n \in 1 .. R : \E i \in 1 .. v : vg[i] = g /\ vn[i] = n
  BY <1>4, Zenon DEF VariantPart, v
<1>19. At(m, "variant") = Vs
  BY <1>10
<1> HIDE DEF b
<1>20. /\ \A i \in Vs : i - b \in 1 .. v /\ b + (i - b) = i
       /\ \A k \in 1 .. v : b + k \in Vs /\ (b + k) - b = k
       /\ \A i, j \in Vs : i - b = j - b => i = j
  BY <1>7, <1>16
<1>21. \A i \in Vs : of[i] = vg[i - b] /\ in[i] = vn[i - b]
  OBVIOUS
<1> HIDE DEF Vs, of, in
<1>22. ASSUME NEW i \in Vs
       PROVE  /\ of[i] \in 1 .. Len(gs) /\ in[i] \in 1 .. R
              /\ m[i] = VariantLine(lines, rungs[in[i]], in[i], gs[of[i]], rows, subs, peaks)
  <2> DEFINE k == i - b
  <2>1. m[i] = V[k] /\ k \in 1 .. v
    BY <1>17, <1>20, Zenon
  <2>2. of[i] = vg[k] /\ in[i] = vn[k]
    BY <1>21, Zenon
  <2> HIDE DEF k
  <2>3. vg[k] \in 1 .. Len(gs) /\ vn[k] \in 1 .. R
        /\ V[k] = VariantLine(lines, rungs[vn[k]], vn[k], gs[vg[k]], rows, subs, peaks)
    BY <1>18, <2>1, Zenon
  <2> QED
    BY <2>1, <2>2, <2>3, Zenon
<1>23. ASSUME NEW i \in Vs, NEW j \in Vs, of[i] = of[j], in[i] = in[j]  PROVE i = j
  <2>1. i - b \in 1 .. v /\ j - b \in 1 .. v /\ vg[i - b] = vg[j - b] /\ vn[i - b] = vn[j - b]
    BY <1>20, <1>21, <1>23, Zenon
  <2>2. i - b = j - b
    BY <1>18, <2>1, Zenon
  <2> QED
    BY <1>20, <2>2, Zenon
<1>24. ASSUME NEW g \in 1 .. Len(gs), NEW n \in 1 .. R  PROVE \E i \in Vs : of[i] = g /\ in[i] = n
  <2>1. PICK k \in 1 .. v : vg[k] = g /\ vn[k] = n
    BY <1>18, Zenon
  <2>2. b + k \in Vs /\ (b + k) - b = k
    BY <1>20, Zenon
  <2>3. of[b + k] = g /\ in[b + k] = n
    BY <1>21, <2>1, <2>2, Zenon
  <2> QED
    BY <2>2, <2>3, Zenon
<1>25. At(m, "audio") = 1 .. a
  BY <1>10, Zenon
<1>26. /\ \A i \in At(m, "variant") :
            /\ of[i] \in 1 .. Len(gs) /\ in[i] \in 1 .. R
            /\ m[i] = VariantLine(lines, rungs[in[i]], in[i], gs[of[i]], rows, subs, peaks)
       /\ \A i, j \in At(m, "variant") : of[i] = of[j] /\ in[i] = in[j] => i = j
       /\ \A g \in 1 .. Len(gs) : \A n \in 1 .. R : \E i \in At(m, "variant") : of[i] = g /\ in[i] = n
  BY <1>19, <1>22, <1>23, <1>24
<1>27. /\ \A i \in At(m, "audio") : at[i] \in 1 .. N /\ m[i] = AudioLine(lines, at[i], rows[at[i]])
       /\ \A i, j \in At(m, "audio") : at[i] = at[j] => i = j
       /\ \A n \in 1 .. N : \E i \in At(m, "audio") : at[i] = n
  BY <1>13, <1>25
<1>28. MasterSays(m, lines, rungs, R, rows, N, subs, s, peaks, gs, at, of, in)
  BY <1>11, <1>14, <1>15, <1>26, <1>27 DEF MasterSays
<1> QED
  BY <1>28 DEF m, gs

\* One rendition of each group is its default.
OneDefault(rows, N) ==
  /\ \A n \in 1 .. N : \E d \in 1 .. N : rows[d].group = rows[n].group /\ rows[d].default
  /\ \A c, d \in 1 .. N : rows[c].group = rows[d].group /\ rows[c].default /\ rows[d].default => c = d

\* What the lines of the audio say.
AudioSays(m, rows, N) ==
  /\ \A n \in 1 .. N : \E i \in At(m, "audio") : m[i].uri = AudioDir(n) /\ m[i].group = rows[n].group
  /\ Cardinality(At(m, "audio")) = N
  /\ \A i \in At(m, "audio") : \E n \in 1 .. N : m[i].group = rows[n].group
  /\ \A g \in {m[i].group : i \in At(m, "audio")} :
       Cardinality({i \in At(m, "audio") : m[i].group = g /\ m[i].default}) = 1
  /\ \A i \in At(m, "audio") : m[i].default => m[i].autoselect

LEMMA AudioLinesSay ==
  ASSUME NEW m, NEW lines, NEW rungs, NEW R, NEW rows, NEW N \in Nat, NEW subs, NEW s, NEW peaks, NEW gs,
         NEW who, NEW of, NEW in, MasterSays(m, lines, rungs, R, rows, N, subs, s, peaks, gs, who, of, in),
         OneDefault(rows, N)
  PROVE  AudioSays(m, rows, N)
<1> DEFINE S == At(m, "audio")
<1>1. /\ IsFiniteSet(DOMAIN m)
      /\ \A i \in S : who[i] \in 1 .. N /\ m[i] = AudioLine(lines, who[i], rows[who[i]])
      /\ \A i, j \in S : who[i] = who[j] => i = j
      /\ \A n \in 1 .. N : \E i \in S : who[i] = n
  BY Zenon DEF MasterSays
<1>2. S \in SUBSET (DOMAIN m)
  BY DEF At
<1> HIDE DEF S
<1>3. IsFiniteSet(S)
  BY <1>1, <1>2, FS_Subset
<1>4. \A n : LET line == AudioLine(lines, n, rows[n])
             IN /\ line.uri = AudioDir(n) /\ line.group = rows[n].group /\ line.default = rows[n].default
                /\ line.default => line.autoselect
  BY DEF AudioLine
<1>5. \A i \in S : /\ who[i] \in 1 .. N /\ m[i].uri = AudioDir(who[i]) /\ m[i].group = rows[who[i]].group
                   /\ m[i].default = rows[who[i]].default
                   /\ m[i].default => m[i].autoselect
  <2> SUFFICES ASSUME NEW i \in S
               PROVE  /\ who[i] \in 1 .. N /\ m[i].uri = AudioDir(who[i]) /\ m[i].group = rows[who[i]].group
                      /\ m[i].default = rows[who[i]].default
                      /\ m[i].default => m[i].autoselect
    OBVIOUS
  <2>1. who[i] \in 1 .. N /\ m[i] = AudioLine(lines, who[i], rows[who[i]])
    BY <1>1, Zenon
  <2> QED
    BY <1>4, <2>1, Zenon
<1>6. ASSUME NEW n \in 1 .. N  PROVE \E i \in S : m[i].uri = AudioDir(n) /\ m[i].group = rows[n].group
  <2>1. PICK i \in S : who[i] = n
    BY <1>1, Zenon
  <2>2. m[i].uri = AudioDir(who[i]) /\ m[i].group = rows[who[i]].group
    BY <1>5, Zenon
  <2> QED
    BY <2>1, <2>2, Zenon
<1>7. Cardinality(S) = N
  <2> DEFINE f == [i \in S |-> who[i]]
  <2>1. f \in Bijection(S, 1 .. N)
    <3>1. f \in [S -> 1 .. N]
      BY <1>1
    <3>2. \A i, j \in S : f[i] = f[j] => i = j
      BY <1>1
    <3>3. \A n \in 1 .. N : \E i \in S : f[i] = n
      BY <1>1
    <3> HIDE DEF f
    <3> QED
      BY <3>1, <3>2, <3>3, Zenon DEF Bijection, Injection, Surjection, IsInjective
  <2>2. Cardinality(S) = Cardinality(1 .. N)
    <3>1. ExistsBijection(S, 1 .. N)
      BY <2>1, Zenon DEF ExistsBijection
    <3> QED
      BY <1>3, <3>1, FS_Bijection
  <2>3. Cardinality(1 .. N) = N
    BY FS_Interval
  <2> QED
    BY <2>2, <2>3
<1>8. ASSUME NEW g \in {m[i].group : i \in S}
      PROVE  Cardinality({i \in S : m[i].group = g /\ m[i].default}) = 1
  <2> DEFINE shown == {i \in S : m[i].group = g /\ m[i].default}
  <2>1. PICK k \in S : g = m[k].group
    OBVIOUS
  <2>2. who[k] \in 1 .. N /\ g = rows[who[k]].group
    BY <1>5, <2>1, Zenon
  <2>3. PICK d \in 1 .. N : rows[d].group = g /\ rows[d].default
    BY <2>2, Zenon DEF OneDefault
  <2>4. PICK i \in S : who[i] = d
    BY <1>1, Zenon
  <2>5. i \in shown
    BY <1>5, <2>3, <2>4
  <2>6. \A j \in shown : j = i
    <3> SUFFICES ASSUME NEW j \in S, m[j].group = g, m[j].default  PROVE j = i
      OBVIOUS
    <3>1. who[j] \in 1 .. N /\ rows[who[j]].group = g /\ rows[who[j]].default
      BY <1>5, Zenon
    <3>2. who[j] = d
      BY <2>3, <3>1, Zenon DEF OneDefault
    <3> QED
      BY <1>1, <2>4, <3>2, Zenon
  <2> HIDE DEF shown
  <2>7. shown = {i}
    BY <2>5, <2>6
  <2>8. Cardinality(shown) = 1
    BY <2>7, FS_Singleton
  <2> QED
    BY <2>8 DEF shown
<1>9. \A i \in S : \E n \in 1 .. N : m[i].group = rows[n].group
  BY <1>5, Zenon
<1>10. \A i \in S : m[i].default => m[i].autoselect
  BY <1>5, Zenon
<1> QED
  BY <1>6, <1>7, <1>8, <1>9, <1>10 DEF AudioSays, S

\* Each codec of a group is a variant's, after its video's.
LEMMA CodecsSay ==
  ASSUME NEW lines, NEW rows, NEW N \in Nat, IsAudio(rows, N), NEW g, NEW c
  PROVE  LET t == <<c>> \o CodecsOf(lines, rows, g)
         IN /\ t[1] = c
            /\ \A n \in 1 .. N : rows[n].group = g => AudioCodec(lines, rows[n]) \in Range(t)
<1> DEFINE ns == Members(rows, g)
           codecs == [k \in DOMAIN ns |-> AudioCodec(lines, rows[ns[k]])]
           B == {AudioCodec(lines, rows[n]) : n \in 1 .. N}
           kept == CodecsOf(lines, rows, g)
           K == Len(kept)
           t == <<c>> \o kept
<1>1. kept = Kept(codecs, Firsts(codecs))
  BY Zenon DEF CodecsOf
<1>2. /\ ns \in Seq(1 .. N)
      /\ \A n \in 1 .. N : rows[n].group = g => \E k \in 1 .. Len(ns) : ns[k] = n
  BY MembersAre
<1> HIDE DEF ns
<1>3. codecs \in Seq(B) /\ Len(codecs) = Len(ns) /\ \A k \in 1 .. Len(ns) : codecs[k] = AudioCodec(lines, rows[ns[k]])
  <2>1. Len(ns) \in Nat /\ DOMAIN ns = 1 .. Len(ns) /\ \A k \in 1 .. Len(ns) : ns[k] \in 1 .. N
    BY <1>2
  <2>2. \A n \in 1 .. N : AudioCodec(lines, rows[n]) \in B
    OBVIOUS
  <2> HIDE DEF B
  <2> QED
    BY <2>1, <2>2
<1> HIDE DEF B, codecs, kept
<1>4. kept \in Seq(B) /\ EachOnce(kept, codecs)
  BY <1>1, <1>3, FirstsAre
<1>5. K \in Nat /\ kept = [i \in 1 .. K |-> kept[i]]
  BY <1>4
<1> HIDE DEF K
<1>6. Joins(t, <<c>>, kept, 1, K)
  <2>1. Listing(<<c>>, 1)
    BY DEF Listing
  <2> QED
    BY <1>5, <2>1, JoinedAt DEF Listing
<1> HIDE DEF t
<1>7. t[1] = c
  <2>1. 1 \in 1 .. 1 /\ <<c>>[1] = c
    OBVIOUS
  <2> QED
    BY <1>6, <2>1, Zenon DEF Joins
<1>8. ASSUME NEW n \in 1 .. N, rows[n].group = g  PROVE AudioCodec(lines, rows[n]) \in Range(t)
  <2>1. PICK k \in 1 .. Len(ns) : ns[k] = n
    BY <1>2, <1>8
  <2>2. codecs[k] = AudioCodec(lines, rows[n]) /\ k \in 1 .. Len(codecs)
    BY <1>3, <2>1
  <2>3. PICK l \in 1 .. K : kept[l] = codecs[k]
    BY <1>4, <2>2, Zenon DEF EachOnce, K
  <2>4. t[1 + l] = kept[l]
    BY <1>6, <2>3, Zenon DEF Joins
  <2>5. 1 + l \in DOMAIN t
    <3>1. DOMAIN t = 1 .. (1 + K)
      BY <1>6, Zenon DEF Joins
    <3> QED
      BY <1>5, <3>1
  <2>6. t[1 + l] \in Range(t)
    BY <2>5 DEF Range
  <2> QED
    BY <2>2, <2>3, <2>4, <2>6
<1> QED
  BY <1>7, <1>8, Zenon DEF t, kept

\* The rungs, by their numbers, and what each rendition needs.
IsVideo(rungs, R) ==
  /\ R \in Nat /\ R >= 1 /\ DOMAIN rungs = 1 .. R
  /\ \A v \in 1 .. R : rungs[v].id = v /\ rungs[v].hevc

PeaksAre(peaks, R, N) ==
  /\ \A v \in 1 .. R : peaks.video[v] \in Nat
  /\ \A n \in 1 .. N : peaks.audio[n] \in Nat
  /\ Peak(peaks.text) \in Nat

\* A variant's bandwidth is a number.
LEMMA BandwidthIs ==
  ASSUME NEW rows, NEW N \in Nat, IsAudio(rows, N), NEW peaks, NEW R \in Nat, PeaksAre(peaks, R, N),
         NEW v \in 1 .. R, NEW g
  PROVE  Bandwidth(peaks.video[v], [k \in DOMAIN Members(rows, g) |-> peaks.audio[Members(rows, g)[k]]], peaks.text) \in Nat
<1> DEFINE ns == Members(rows, g)
           stats == [k \in DOMAIN ns |-> peaks.audio[ns[k]]]
<1>1. ns \in Seq(1 .. N)
  BY MembersAre
<1> HIDE DEF ns
<1>2. Len(ns) \in Nat /\ DOMAIN ns = 1 .. Len(ns) /\ \A k \in 1 .. Len(ns) : ns[k] \in 1 .. N
  BY <1>1
<1>3. DOMAIN stats = 1 .. Len(ns) /\ \A k \in 1 .. Len(ns) : stats[k] \in Nat
  BY <1>2 DEF PeaksAre
<1> HIDE DEF stats
<1>4. Peak(stats) \in Nat
  BY <1>2, <1>3, PeakIs
<1>5. peaks.video[v] + Peak(stats) + Peak(peaks.text) \in Nat
  BY <1>4 DEF PeaksAre
<1> QED
  BY <1>5, Zenon DEF Bandwidth, stats, ns

\* What the lines of the variants say.
VariantsSay(m, lines, rungs, R, rows, N, gs, subs) ==
  /\ \A i \in At(m, "variant") :
       /\ \E v \in 1 .. R : m[i].uri = Video(rungs[v]) /\ m[i].codecs[1] = VideoCodec(lines, rungs[v])
       /\ \E g \in 1 .. Len(gs) : m[i].group = gs[g]
       /\ m[i].subtitles = (subs # <<>>)
       /\ \A n \in 1 .. N : rows[n].group = m[i].group => rows[n].codec \in Range(m[i].codecs)
       /\ m[i].bandwidth \in Nat
  /\ \A v \in 1 .. R, n \in 1 .. N :
       Cardinality({i \in At(m, "variant") : m[i].uri = Video(rungs[v]) /\ m[i].group = rows[n].group}) = 1
  /\ At(m, "variant") # {}

LEMMA VariantLinesSay ==
  ASSUME NEW m, NEW lines, LinesTell(lines), NEW rungs, NEW R, IsVideo(rungs, R),
         NEW rows, NEW N \in Nat, IsAudio(rows, N), NEW subs, NEW s, NEW peaks, PeaksAre(peaks, R, N),
         NEW gs, GroupsStand(gs, rows, N),
         NEW who, NEW of, NEW in, MasterSays(m, lines, rungs, R, rows, N, subs, s, peaks, gs, who, of, in)
  PROVE  VariantsSay(m, lines, rungs, R, rows, N, gs, subs)
<1> DEFINE S == At(m, "variant")
           Line(v, g) == VariantLine(lines, rungs[v], v, g, rows, subs, peaks)
<1>1. /\ \A i \in S : of[i] \in 1 .. Len(gs) /\ in[i] \in 1 .. R /\ m[i] = Line(in[i], gs[of[i]])
      /\ \A i, j \in S : of[i] = of[j] /\ in[i] = in[j] => i = j
      /\ \A g \in 1 .. Len(gs) : \A v \in 1 .. R : \E i \in S : of[i] = g /\ in[i] = v
  BY Zenon DEF MasterSays
<1>2. R \in Nat /\ R >= 1 /\ \A v \in 1 .. R : rungs[v].id = v
  BY DEF IsVideo
<1>3. \A n \in 1 .. N : AudioCodec(lines, rows[n]) = rows[n].codec
  <2> SUFFICES ASSUME NEW n \in 1 .. N  PROVE AudioCodec(lines, rows[n]) = rows[n].codec
    OBVIOUS
  <2>1. rows[n].group \in AudioGroups /\ rows[n].codec = CodecOfGroup(rows[n].group)
    BY Zenon DEF IsAudio
  <2> QED
    BY <2>1, AudioCodecIs
<1>4. ASSUME NEW v \in 1 .. R, NEW g
      PROVE  LET line == Line(v, g)
             IN /\ line.uri = Video(rungs[v]) /\ line.group = g /\ line.subtitles = (subs # <<>>)
                /\ line.codecs[1] = VideoCodec(lines, rungs[v])
                /\ \A n \in 1 .. N : rows[n].group = g => rows[n].codec \in Range(line.codecs)
                /\ line.bandwidth \in Nat
  <2> DEFINE line == Line(v, g)
             t == <<VideoCodec(lines, rungs[v])>> \o CodecsOf(lines, rows, g)
             b == Bandwidth(peaks.video[v], [k \in DOMAIN Members(rows, g) |-> peaks.audio[Members(rows, g)[k]]], peaks.text)
  <2>1. /\ line.uri = Video(rungs[v]) /\ line.group = g /\ line.subtitles = (subs # <<>>)
        /\ line.codecs = t /\ line.bandwidth = b
    BY DEF VariantLine
  <2>2. /\ t[1] = VideoCodec(lines, rungs[v])
        /\ \A n \in 1 .. N : rows[n].group = g => AudioCodec(lines, rows[n]) \in Range(t)
    BY CodecsSay
  <2>3. b \in Nat
    BY <1>2, BandwidthIs
  <2> HIDE DEF line, t, b
  <2>4. \A n \in 1 .. N : rows[n].group = g => rows[n].codec \in Range(t)
    BY <1>3, <2>2
  <2> QED
    BY <2>1, <2>2, <2>3, <2>4 DEF line
<1> HIDE DEF S, Line
<1>5. \A i \in S : m[i].uri = Video(rungs[in[i]]) /\ m[i].group = gs[of[i]]
  <2> SUFFICES ASSUME NEW i \in S  PROVE m[i].uri = Video(rungs[in[i]]) /\ m[i].group = gs[of[i]]
    OBVIOUS
  <2>1. of[i] \in 1 .. Len(gs) /\ in[i] \in 1 .. R /\ m[i] = Line(in[i], gs[of[i]])
    BY <1>1, Zenon
  <2> QED
    BY <1>4, <2>1
<1>6. ASSUME NEW i \in S
      PROVE  /\ \E v \in 1 .. R : m[i].uri = Video(rungs[v]) /\ m[i].codecs[1] = VideoCodec(lines, rungs[v])
             /\ \E g \in 1 .. Len(gs) : m[i].group = gs[g]
             /\ m[i].subtitles = (subs # <<>>)
             /\ \A n \in 1 .. N : rows[n].group = m[i].group => rows[n].codec \in Range(m[i].codecs)
             /\ m[i].bandwidth \in Nat
  <2> DEFINE v == in[i]
             g == of[i]
             line == Line(v, gs[g])
  <2>1. g \in 1 .. Len(gs) /\ v \in 1 .. R /\ m[i] = line
    BY <1>1, Zenon
  <2> HIDE DEF v, g
  <2>2. /\ line.uri = Video(rungs[v]) /\ line.group = gs[g] /\ line.subtitles = (subs # <<>>)
        /\ line.codecs[1] = VideoCodec(lines, rungs[v])
        /\ \A n \in 1 .. N : rows[n].group = gs[g] => rows[n].codec \in Range(line.codecs)
        /\ line.bandwidth \in Nat
    BY <1>4, <2>1
  <2> HIDE DEF line
  <2> QED
    BY <2>1, <2>2
<1>7. ASSUME NEW v \in 1 .. R, NEW n \in 1 .. N
      PROVE  Cardinality({i \in S : m[i].uri = Video(rungs[v]) /\ m[i].group = rows[n].group}) = 1
  <2> DEFINE those == {i \in S : m[i].uri = Video(rungs[v]) /\ m[i].group = rows[n].group}
  <2>1. PICK g \in 1 .. Len(gs) : gs[g] = rows[n].group
    BY Zenon DEF GroupsStand
  <2>2. PICK i \in S : of[i] = g /\ in[i] = v
    BY <1>1, Zenon
  <2>3. i \in those
    BY <1>5, <2>1, <2>2
  <2>4. \A j \in those : j = i
    <3> SUFFICES ASSUME NEW j \in S, m[j].uri = Video(rungs[v]), m[j].group = rows[n].group  PROVE j = i
      OBVIOUS
    <3>1. of[j] \in 1 .. Len(gs) /\ in[j] \in 1 .. R
      BY <1>1, Zenon
    <3>2. gs[of[j]] = gs[g]
      BY <1>5, <2>1, Zenon
    <3>3. of[j] = g
      BY <2>1, <3>1, <3>2, Zenon DEF GroupsStand
    <3>4. Video(rungs[in[j]]) = Video(rungs[v])
      BY <1>5, Zenon
    <3>5. rungs[in[j]].id = rungs[v].id
      BY <3>4 DEF Video
    <3>6. in[j] = v
      BY <1>2, <3>1, <3>5
    <3>7. of[j] = of[i] /\ in[j] = in[i]
      BY <2>2, <3>3, <3>6, Zenon
    <3> QED
      BY <1>1, <3>7, Zenon
  <2> HIDE DEF those
  <2>5. those = {i}
    BY <2>3, <2>4
  <2>6. Cardinality(those) = 1
    BY <2>5, FS_Singleton
  <2> QED
    BY <2>6 DEF those
<1>8. S # {}
  <2>1. 1 \in 1 .. Len(gs)
    <3>1. gs \in Seq(AudioGroups \cup {"none"}) /\ Len(gs) >= 1
      BY Zenon DEF GroupsStand
    <3> QED
      BY <3>1
  <2>2. 1 \in 1 .. R
    BY <1>2
  <2> QED
    BY <1>1, <2>1, <2>2
<1> QED
  BY <1>6, <1>7, <1>8 DEF VariantsSay, S

(***************************************************************************)
(* What a run packages.                                                    *)
(***************************************************************************)

\* The renditions of its audio.
IsRow(row) == \E g \in AudioGroups : \E p, d : row = AudioRow(g, "en", p, d)

IsEntries(entries, N) ==
  /\ N \in Nat /\ Listing(entries, N) /\ Len(entries) = N
  /\ \A n \in 1 .. N : IsRow(entries[n])
  /\ OneDefault(entries, N)

LEMMA RowIs ==
  ASSUME NEW row, NEW g \in AudioGroups, NEW p, NEW d, row = AudioRow(g, "en", p, d)
  PROVE  IsRow(row)
BY Zenon DEF IsRow

\* The first stereo rendition and the companion are the defaults.
LEMMA RowsPackaged ==
  ASSUME NEW entries \in AudioRows
  PROVE  \E N \in Nat : IsEntries(entries, N)
<1>1. CASE entries = <<>>
  <2>1. <<>> = [i \in 1 .. 0 |-> <<>>[i]] /\ Len(<<>>) = 0 /\ 0 \in Nat
    OBVIOUS
  <2>2. \A n : n \notin 1 .. 0
    OBVIOUS
  <2>3. IsEntries(entries, 0)
    BY <1>1, <2>1, <2>2 DEF IsEntries, Listing, OneDefault
  <2> QED
    BY <2>1, <2>3
<1>2. CASE entries # <<>>
  <2>1. PICK ps \in UpTo(2, {"main", "description"}) \ {<<>>}, c \in 0 .. 1 : entries = AudioOf(ps, c)
    <3>1. PICK has \in [tracks : UpTo(2, {"main", "description"}) \ {<<>>}, companions : 0 .. 1] :
               entries = AudioOf(has.tracks, has.companions)
      BY <1>2, Zenon DEF AudioRows
    <3> QED
      BY <3>1
  <2>2. PICK k \in 1 .. 2 : ps \in [1 .. k -> {"main", "description"}]
    <3>1. PICK k \in 0 .. 2 : ps \in [1 .. k -> {"main", "description"}]
      BY DEF UpTo
    <3>2. k # 0
      <4> SUFFICES ASSUME k = 0  PROVE FALSE
        OBVIOUS
      <4>1. 1 .. k = {}
        OBVIOUS
      <4> QED
        BY <2>1, <3>1, <4>1
    <3> QED
      BY <3>1, <3>2
  <2> DEFINE s == [i \in DOMAIN ps |-> AudioRow("audio", "en", ps[i], i = 1)]
             t == [i \in 1 .. c |-> AudioRow("surround", "en", "main", TRUE)]
  <2>3. /\ DOMAIN ps = 1 .. k /\ Listing(s, k) /\ k \in Nat /\ k >= 1
        /\ \A i \in 1 .. k : s[i] = AudioRow("audio", "en", ps[i], i = 1)
    BY <2>2 DEF Listing
  <2>4. /\ Listing(t, c) /\ c \in Nat
        /\ \A i \in 1 .. c : t[i] = AudioRow("surround", "en", "main", TRUE)
    BY DEF Listing
  <2>5. entries = s \o t
    BY <2>1, Zenon DEF AudioOf
  <2> HIDE DEF s, t
  <2>6. "audio" \in AudioGroups /\ "surround" \in AudioGroups
    BY DEF AudioGroups
  <2>7. ASSUME NEW i \in 1 .. k
        PROVE  IsRow(s[i]) /\ s[i].group = "audio" /\ s[i].default = (i = 1)
    <3> DEFINE first == (i = 1)
    <3>1. s[i] = AudioRow("audio", "en", ps[i], first)
      BY <2>3
    <3> HIDE DEF first
    <3>2. IsRow(s[i])
      BY <2>6, <3>1, RowIs
    <3>3. s[i].group = "audio" /\ s[i].default = first
      BY <3>1 DEF AudioRow
    <3> QED
      BY <3>2, <3>3 DEF first
  <2>8. ASSUME NEW i \in 1 .. c
        PROVE  IsRow(t[i]) /\ t[i].group = "surround" /\ t[i].default = TRUE
    <3>1. t[i] = AudioRow("surround", "en", "main", TRUE) /\ "surround" \in AudioGroups
      BY <2>4, <2>6
    <3>2. IsRow(t[i])
      BY <3>1, RowIs
    <3>3. t[i].group = "surround" /\ t[i].default = TRUE
      BY <3>1 DEF AudioRow
    <3> QED
      BY <3>2, <3>3
  <2>9. Joins(s \o t, s, t, k, c)
    BY <2>3, <2>4, JoinedAt
  <2>10. /\ Listing(entries, k + c) /\ Len(entries) = k + c
         /\ \A i \in 1 .. k : entries[i] = s[i]
         /\ \A i \in 1 .. c : entries[k + i] = t[i]
    BY <2>5, <2>9, Zenon DEF Joins
  <2>11. \A i \in 1 .. (k + c) : i \in 1 .. k \/ \E j \in 1 .. c : i = k + j /\ j = 1
    BY <2>3
  <2>12. \A i \in 1 .. k : IsRow(entries[i]) /\ entries[i].group = "audio" /\ entries[i].default = (i = 1)
    BY <2>7, <2>10, Zenon
  <2>13. \A i \in 1 .. c :
           IsRow(entries[k + i]) /\ entries[k + i].group = "surround" /\ entries[k + i].default = TRUE
    BY <2>8, <2>10, Zenon
  <2>14. \A i \in 1 .. (k + c) : IsRow(entries[i])
    BY <2>11, <2>12, <2>13, Zenon
  <2>15. ASSUME NEW i \in 1 .. (k + c)
         PROVE  \E d \in 1 .. (k + c) : entries[d].group = entries[i].group /\ entries[d].default
    <3>1. 1 \in 1 .. k /\ 1 \in 1 .. (k + c)
      BY <2>3
    <3>2. entries[1].group = "audio" /\ entries[1].default
      BY <2>12, <3>1
    <3>3. CASE i \in 1 .. k
      BY <2>12, <3>1, <3>2, <3>3
    <3>4. CASE \E j \in 1 .. c : i = k + j /\ j = 1
      BY <2>13, <3>4
    <3> QED
      BY <2>11, <3>3, <3>4
  <2>16. ASSUME NEW b \in 1 .. (k + c), NEW d \in 1 .. (k + c),
                entries[b].group = entries[d].group, entries[b].default, entries[d].default
         PROVE  b = d
    <3>1. "audio" # "surround"
      OBVIOUS
    <3>2. b \in 1 .. k => b = 1 /\ entries[b].group = "audio"
      BY <2>12, <2>16
    <3>3. d \in 1 .. k => d = 1 /\ entries[d].group = "audio"
      BY <2>12, <2>16
    <3>4. b \notin 1 .. k => b = k + 1 /\ entries[b].group = "surround"
      BY <2>11, <2>13, Zenon
    <3>5. d \notin 1 .. k => d = k + 1 /\ entries[d].group = "surround"
      BY <2>11, <2>13, Zenon
    <3>6. CASE b \in 1 .. k
      BY <2>16, <3>1, <3>2, <3>3, <3>5, <3>6
    <3>7. CASE b \notin 1 .. k
      BY <2>16, <3>1, <3>3, <3>4, <3>5, <3>7
    <3> QED
      BY <3>6, <3>7
  <2>17. OneDefault(entries, k + c)
    BY <2>15, <2>16, Zenon DEF OneDefault
  <2>18. k + c \in Nat
    BY <2>3, <2>4
  <2>19. IsEntries(entries, k + c)
    BY <2>10, <2>14, <2>17, <2>18, Zenon DEF IsEntries
  <2> QED
    BY <2>18, <2>19, Zenon
<1> QED
  BY <1>1, <1>2

\* With what may be picked, they are the same renditions.
LEMMA RowsPicked ==
  ASSUME NEW entries, NEW N \in Nat, IsEntries(entries, N)
  PROVE  LET rows == WithAutoselect(entries)
         IN /\ IsAudio(rows, N) /\ IsAudio(entries, N) /\ OneDefault(rows, N)
            /\ \A n \in 1 .. N : rows[n].group = entries[n].group
<1> DEFINE rows == WithAutoselect(entries)
           auto(g) == AudioAutoselect([k \in DOMAIN Members(entries, g) |-> entries[Members(entries, g)[k]]])
           place(n) == Cardinality({m \in 1 .. n : entries[m].group = entries[n].group})
           picked(n) == auto(entries[n].group)[place(n)]
<1>1. rows = [n \in DOMAIN entries |-> [entries[n] EXCEPT !.autoselect = picked(n)]]
  BY Zenon DEF WithAutoselect
<1> HIDE DEF rows, picked
<1>2. Listing(entries, N) /\ DOMAIN entries = 1 .. N /\ Len(entries) = N
  BY DEF IsEntries, Listing
<1>3. \A n \in 1 .. N : rows[n] = [entries[n] EXCEPT !.autoselect = picked(n)]
  BY <1>1, <1>2
<1>4. Listing(rows, N) /\ DOMAIN rows = 1 .. N /\ Len(rows) = N
  BY <1>1, <1>2 DEF Listing
<1>5. ASSUME NEW n \in 1 .. N
      PROVE  /\ entries[n].group \in AudioGroups /\ entries[n].codec = CodecOfGroup(entries[n].group)
             /\ rows[n].group = entries[n].group /\ rows[n].codec = entries[n].codec
             /\ rows[n].default = entries[n].default
  <2>0. IsRow(entries[n])
    BY Zenon DEF IsEntries
  <2>1. PICK g \in AudioGroups : \E p, d : entries[n] = AudioRow(g, "en", p, d)
    BY <2>0, Zenon DEF IsRow
  <2>a. PICK p, d : entries[n] = AudioRow(g, "en", p, d)
    BY <2>1
  <2>2. rows[n] = [AudioRow(g, "en", p, d) EXCEPT !.autoselect = picked(n)]
    BY <1>3, <2>a, Zenon
  <2>3. entries[n].group = g /\ entries[n].codec = CodecOfGroup(g) /\ entries[n].default = d
    BY <2>a DEF AudioRow, CodecOfGroup
  <2>4. rows[n].group = g /\ rows[n].codec = CodecOfGroup(g) /\ rows[n].default = d
    BY <2>2 DEF AudioRow, CodecOfGroup
  <2> QED
    BY <2>3, <2>4, Zenon
<1>6. IsAudio(entries, N)
  BY <1>2, <1>5, Zenon DEF IsAudio
<1>7. IsAudio(rows, N)
  <2>1. \A n \in 1 .. N : rows[n].group \in AudioGroups /\ rows[n].codec = CodecOfGroup(rows[n].group)
    BY <1>5
  <2> QED
    BY <1>4, <2>1, Zenon DEF IsAudio
<1>8. OneDefault(rows, N)
  <2>1. OneDefault(entries, N)
    BY DEF IsEntries
  <2>2. \A n \in 1 .. N : rows[n].group = entries[n].group /\ rows[n].default = entries[n].default
    BY <1>5
  <2>3. \A n \in 1 .. N : \E d \in 1 .. N : rows[d].group = rows[n].group /\ rows[d].default
    BY <2>1, <2>2 DEF OneDefault
  <2>4. ASSUME NEW c \in 1 .. N, NEW d \in 1 .. N, rows[c].group = rows[d].group, rows[c].default, rows[d].default
        PROVE  c = d
    <3>1. entries[c].group = entries[d].group /\ entries[c].default /\ entries[d].default
      BY <2>2, <2>4
    <3> QED
      BY <2>1, <3>1, Zenon DEF OneDefault
  <2> QED
    BY <2>3, <2>4, Zenon DEF OneDefault
<1> QED
  BY <1>5, <1>6, <1>7, <1>8 DEF rows

(***************************************************************************)
(* What the master and the manifest of a run say of each other.            *)
(***************************************************************************)

AudioAgrees(j) ==
  LET m == j.master
  IN /\ \A n \in DOMAIN j.entries :
          /\ \E i \in At(m, "audio") : m[i].uri = j.audio[n].dir /\ m[i].group = j.audio[n].group
          /\ j.audio[n].codec = j.entries[n].codec
     /\ Cardinality(At(m, "audio")) = Len(j.entries)
     /\ \A g \in {m[i].group : i \in At(m, "audio")} :
          Cardinality({i \in At(m, "audio") : m[i].group = g /\ m[i].default}) = 1
     /\ \A i \in At(m, "audio") : m[i].default => m[i].autoselect

TextsAgree(j) ==
  LET m == j.master
  IN /\ Cardinality(At(m, "subtitles")) = j.listed
     /\ \A i \in At(m, "subtitles") : /\ m[i].default => m[i].autoselect
                                      /\ m[i].forced => m[i].autoselect

VariantsAgree(j) ==
  LET m == j.master
  IN /\ \A i \in At(m, "variant") :
          /\ \E v \in DOMAIN j.video : m[i].uri = j.video[v].dir /\ m[i].codecs[1] = j.video[v].codec
          /\ m[i].group # "none" => \E k \in At(m, "audio") : m[k].group = m[i].group
          /\ m[i].subtitles = (At(m, "subtitles") # {})
          /\ \A n \in DOMAIN j.audio : j.audio[n].group = m[i].group => j.audio[n].codec \in Range(m[i].codecs)
     /\ \A v \in DOMAIN j.video, g \in {j.entries[n].group : n \in DOMAIN j.entries} :
          Cardinality({i \in At(m, "variant") : m[i].uri = j.video[v].dir /\ m[i].group = g}) = 1

RecordAgrees(j) ==
  LET m == j.master
  IN /\ j.written \in {{}, {v \in DOMAIN j.rungs : j.rungs[v].range = "PQ"}}
     /\ \A block \in j.record.hls : /\ block.subtitleGroup = (At(m, "subtitles") # {})
                                    /\ Range(block.audioGroups) = {m[i].group : i \in At(m, "audio")}
     /\ j.record.hls # {} /\ j.record.peakBandwidthBps \in {m[i].bandwidth : i \in At(m, "variant")}
     /\ \A i \in At(m, "variant") : m[i].bandwidth <= j.record.peakBandwidthBps

AgreesHolds(j) == AudioAgrees(j) /\ TextsAgree(j) /\ VariantsAgree(j) /\ RecordAgrees(j)

\* Then they agree.
LEMMA AgreesSays ==
  ASSUME job.kind = "playlist" => AgreesHolds(job)
  PROVE  MasterAgrees
<1> SUFFICES ASSUME job.kind = "playlist"  PROVE MasterAgrees
  BY DEF MasterAgrees
<1> DEFINE m == job.master
<1>1. AudioAgrees(job) /\ TextsAgree(job) /\ VariantsAgree(job) /\ RecordAgrees(job)
  BY DEF AgreesHolds
<1>2. \A i \in At(m, "audio") \cup At(m, "subtitles") : m[i].default => m[i].autoselect
  BY <1>1 DEF AudioAgrees, TextsAgree
<1>3. \A i \in At(m, "subtitles") : m[i].forced => m[i].autoselect
  BY <1>1 DEF TextsAgree
<1>4. /\ \A n \in DOMAIN job.entries :
           /\ \E i \in At(m, "audio") : m[i].uri = job.audio[n].dir /\ m[i].group = job.audio[n].group
           /\ job.audio[n].codec = job.entries[n].codec
      /\ Cardinality(At(m, "audio")) = Len(job.entries) /\ Cardinality(At(m, "subtitles")) = job.listed
      /\ \A g \in {m[i].group : i \in At(m, "audio")} :
           Cardinality({i \in At(m, "audio") : m[i].group = g /\ m[i].default}) = 1
  BY <1>1, Zenon DEF AudioAgrees, TextsAgree
<1> QED
  BY <1>1, <1>2, <1>3, <1>4, Zenon DEF MasterAgrees, VariantsAgree, RecordAgrees, At

\* The highest bandwidth of a master.
LEMMA PeakBandwidthIs ==
  ASSUME NEW m, IsFiniteSet(DOMAIN m), At(m, "variant") # {}, \A i \in At(m, "variant") : m[i].bandwidth \in Nat
  PROVE  /\ PeakBandwidth(m) \in {m[i].bandwidth : i \in At(m, "variant")}
         /\ \A i \in At(m, "variant") : m[i].bandwidth <= PeakBandwidth(m)
<1> DEFINE D == At(m, "variant")
           f == [i \in D |-> m[i].bandwidth]
           S == {m[i].bandwidth : i \in D}
           most == Max({0} \cup S)
<1>1. IsFiniteSet(D)
  BY FS_Subset DEF At
<1>2. most \in Nat /\ most \in {0} \cup S /\ \A y \in S : y <= most
  <2>1. S \in SUBSET {f[x] : x \in D} /\ \A x \in D : f[x] \in Nat
    OBVIOUS
  <2> HIDE DEF S, f, D
  <2> QED
    BY <1>1, <2>1, MostOf, Zenon
<1>3. PeakBandwidth(m) = most
  BY DEF PeakBandwidth, At
<1> HIDE DEF most
<1>4. \A i \in D : m[i].bandwidth \in S /\ m[i].bandwidth \in Nat
  OBVIOUS
<1>5. most \in S
  <2>1. PICK i \in D : TRUE
    OBVIOUS
  <2>2. CASE most = 0
    <3>1. m[i].bandwidth <= 0 /\ m[i].bandwidth \in Nat /\ m[i].bandwidth \in S
      BY <1>2, <1>4, <2>2
    <3>2. m[i].bandwidth = 0
      BY <3>1
    <3> QED
      BY <2>2, <3>1, <3>2
  <2> QED
    BY <1>2, <2>2
<1> QED
  BY <1>2, <1>3, <1>4, <1>5

(***************************************************************************)
(* The playlist a run writes.                                              *)
(***************************************************************************)

\* What a run's streams are: the rungs, the renditions, the subtitles.
IsPackage(rungs, R, entries, N, subs, s) ==
  /\ IsVideo(rungs, R) /\ N \in Nat /\ IsEntries(entries, N) /\ s \in Nat
  /\ Listing(subs, s) /\ DOMAIN subs = 1 .. s /\ Len(subs) = s

PeaksOf(rungs, entries, subs) ==
  [video |-> [v \in DOMAIN rungs |-> v], audio |-> [n \in DOMAIN entries |-> n], text |-> [k \in DOMAIN subs |-> 1]]

OrderOf(entries) == [g \in {entries[n].group : n \in DOMAIN entries} |-> LinesOf(entries, g)]

\* The subtitles of the playlist.
SubtitlesAsked(subs, asked) == IF asked THEN subs ELSE <<>>

\* What a master with these subtitles says, of each part of it.
PartsSay(m, lines, rungs, R, rows, N, gs, shown) ==
  /\ IsFiniteSet(DOMAIN m) /\ GroupsStand(gs, rows, N)
  /\ AudioSays(m, rows, N)
  /\ VariantsSay(m, lines, rungs, R, rows, N, gs, shown)
  /\ Cardinality(At(m, "subtitles")) = Len(shown) /\ Len(shown) \in Nat
  /\ \A i \in At(m, "subtitles") : \E k \in 1 .. Len(shown) : m[i] = TextLine(shown[k])
  /\ (shown # <<>>) = (At(m, "subtitles") # {})

LEMMA PlaylistSays ==
  ASSUME NEW rungs, NEW R, NEW entries, NEW N, NEW subs, NEW s, IsPackage(rungs, R, entries, N, subs, s),
         NEW lines, LinesTell(lines), NEW asked
  PROVE  LET rows == WithAutoselect(entries)
         IN PartsSay(AssembleMaster(lines, rungs, rows, OrderOf(entries), subs, PeaksOf(rungs, entries, subs), asked),
                     lines, rungs, R, rows, N, GroupsInOrder(rows), SubtitlesAsked(subs, asked))
<1> DEFINE rows == WithAutoselect(entries)
           listed == SubtitlesAsked(subs, asked)
           order == OrderOf(entries)
           peaks == PeaksOf(rungs, entries, subs)
           gs == GroupsInOrder(rows)
           m == BuildMaster(lines, rungs, rows, order, listed, peaks)
           sn == IF asked THEN s ELSE 0
<1>1. /\ IsVideo(rungs, R) /\ R \in Nat /\ DOMAIN rungs = 1 .. R /\ N \in Nat /\ IsEntries(entries, N) /\ s \in Nat
      /\ DOMAIN subs = 1 .. s /\ Len(subs) = s /\ DOMAIN entries = 1 .. N
  BY DEF IsPackage, IsVideo, IsEntries, Listing
<1>2. /\ IsAudio(rows, N) /\ IsAudio(entries, N) /\ OneDefault(rows, N)
      /\ \A n \in 1 .. N : rows[n].group = entries[n].group
  BY <1>1, RowsPicked, Zenon
<1>3. \A n \in 1 .. N : LinesFor(order[rows[n].group], rows, N, rows[n].group)
  <2> SUFFICES ASSUME NEW n \in 1 .. N  PROVE LinesFor(order[rows[n].group], rows, N, rows[n].group)
    OBVIOUS
  <2> DEFINE g == rows[n].group
  <2>1. order[g] = LinesOf(entries, g)
    BY <1>1, <1>2 DEF OrderOf
  <2>2. LinesFor(LinesOf(entries, g), entries, N, g)
    BY <1>1, <1>2, GroupLines, Zenon
  <2> HIDE DEF g, rows
  <2>3. LinesFor(LinesOf(entries, g), rows, N, g)
    <3> DEFINE o == LinesOf(entries, g)
    <3> HIDE DEF o
    <3>1. o \in Seq(1 .. N) /\ DOMAIN o = 1 .. Len(o)
      BY <2>2 DEF LinesFor, o
    <3>2. \A p \in 1 .. Len(o) : o[p] \in 1 .. N
      BY <1>1, <3>1
    <3>3. \A p \in 1 .. Len(o) : rows[o[p]].group = g
      BY <1>2, <2>2, <3>2 DEF LinesFor, o
    <3>4. \A x \in 1 .. N : rows[x].group = g => \E p \in 1 .. Len(o) : o[p] = x
      BY <1>2, <2>2 DEF LinesFor, o
    <3> QED
      BY <2>2, <3>3, <3>4, Zenon DEF LinesFor, o
  <2> QED
    BY <2>1, <2>3 DEF g
<1>4. PeaksAre(peaks, R, N)
  <2>1. /\ \A v \in 1 .. R : peaks.video[v] = v
        /\ \A n \in 1 .. N : peaks.audio[n] = n
        /\ DOMAIN peaks.text = 1 .. s
        /\ \A k \in 1 .. s : peaks.text[k] = 1
    BY <1>1 DEF PeaksOf
  <2> HIDE DEF peaks
  <2>2. Peak(peaks.text) \in Nat
    <3>1. \A k \in 1 .. s : peaks.text[k] \in Nat
      BY <2>1
    <3> QED
      BY <1>1, <2>1, <3>1, PeakIs, Zenon
  <2>3. (\A v \in 1 .. R : peaks.video[v] \in Nat) /\ \A n \in 1 .. N : peaks.audio[n] \in Nat
    BY <1>1, <2>1
  <2> QED
    BY <2>2, <2>3, Zenon DEF PeaksAre
<1>5. /\ sn \in Nat /\ DOMAIN listed = 1 .. sn /\ Len(listed) = sn /\ (listed # <<>>) = (sn # 0)
  <2>1. CASE asked
    <3>1. listed = subs /\ sn = s
      BY <2>1 DEF SubtitlesAsked
    <3>2. subs # <<>> => s # 0
      <4> SUFFICES ASSUME s = 0  PROVE subs = <<>>
        OBVIOUS
      <4>1. Listing(subs, s)
        BY DEF IsPackage
      <4> QED
        BY <1>1, <4>1 DEF Listing
    <3>3. subs = <<>> => s = 0
      BY <1>1
    <3> QED
      BY <1>1, <3>1, <3>2, <3>3
  <2>2. CASE ~ asked
    BY <2>2 DEF SubtitlesAsked
  <2> QED
    BY <2>1, <2>2
<1>6. GroupsStand(gs, rows, N)
  BY <1>1, <1>2, GroupsListed, Zenon
<1>7. AssembleMaster(lines, rungs, rows, order, subs, peaks, asked) = m
  BY Zenon DEF AssembleMaster, SubtitlesAsked
<1>8. PICK who, of, in : MasterSays(m, lines, rungs, R, rows, N, listed, sn, peaks, gs, who, of, in)
  <2> HIDE DEF rows, listed, order, peaks, sn
  <2> QED
    BY <1>1, <1>2, <1>3, <1>5, MasterBuilt, Zenon
<1> HIDE DEF rows, listed, order, peaks, gs, m, sn
<1>9. AudioSays(m, rows, N)
  BY <1>1, <1>2, <1>8, AudioLinesSay, Zenon
<1>10. VariantsSay(m, lines, rungs, R, rows, N, gs, listed)
  BY <1>1, <1>2, <1>4, <1>6, <1>8, VariantLinesSay, Zenon
<1>11. /\ IsFiniteSet(DOMAIN m) /\ Cardinality(At(m, "subtitles")) = sn
       /\ \A i \in At(m, "subtitles") : \E k \in 1 .. sn : m[i] = TextLine(listed[k])
  BY <1>8, Zenon DEF MasterSays
<1>12. (sn # 0) = (At(m, "subtitles") # {})
  <2>1. IsFiniteSet(At(m, "subtitles"))
    BY <1>11, FS_Subset DEF At
  <2> QED
    BY <1>5, <1>11, <2>1, FS_EmptySet
<1>13. (listed # <<>>) = (At(m, "subtitles") # {})
  BY <1>5, <1>12
<1> QED
  BY <1>5, <1>6, <1>7, <1>9, <1>10, <1>11, <1>13, Zenon DEF PartsSay, rows, listed, order, peaks, gs

\* What the manifest of a run says.
ManifestSays(j, rungs, R, rows, N, lines) ==
  /\ j.rungs = rungs /\ j.entries = rows /\ DOMAIN j.entries = 1 .. N /\ Len(j.entries) = N
  /\ DOMAIN j.video = 1 .. R /\ DOMAIN j.audio = 1 .. N
  /\ \A v \in 1 .. R : j.video[v].dir = Video(rungs[v]) /\ j.video[v].codec = VideoCodec(lines, rungs[v])
  /\ \A n \in 1 .. N : /\ j.audio[n].dir = AudioDir(n) /\ j.audio[n].group = rows[n].group
                       /\ j.audio[n].codec = rows[n].codec

\* Lines of the master that say what each part does agree with it.
LEMMA ManifestAgrees ==
  ASSUME NEW j, NEW rungs, NEW R, NEW rows, NEW N \in Nat, NEW lines, ManifestSays(j, rungs, R, rows, N, lines),
         AudioSays(j.master, rows, N), NEW gs, GroupsStand(gs, rows, N), NEW listed,
         VariantsSay(j.master, lines, rungs, R, rows, N, gs, listed),
         (listed # <<>>) = (At(j.master, "subtitles") # {})
  PROVE  AudioAgrees(j) /\ VariantsAgree(j)
<1> DEFINE m == j.master
<1>1. AudioAgrees(j)
  <2>1. ASSUME NEW n \in 1 .. N
        PROVE  /\ \E i \in At(m, "audio") : m[i].uri = j.audio[n].dir /\ m[i].group = j.audio[n].group
               /\ j.audio[n].codec = j.entries[n].codec
    <3>1. PICK i \in At(m, "audio") : m[i].uri = AudioDir(n) /\ m[i].group = rows[n].group
      BY DEF AudioSays
    <3>2. j.audio[n].dir = AudioDir(n) /\ j.audio[n].group = rows[n].group /\ j.audio[n].codec = j.entries[n].codec
      BY DEF ManifestSays
    <3> QED
      BY <3>1, <3>2
  <2> QED
    BY <2>1, Zenon DEF AudioAgrees, AudioSays, ManifestSays
<1>2. ASSUME NEW i \in At(m, "variant")
      PROVE  /\ \E v \in DOMAIN j.video : m[i].uri = j.video[v].dir /\ m[i].codecs[1] = j.video[v].codec
             /\ m[i].group # "none" => \E k \in At(m, "audio") : m[k].group = m[i].group
             /\ m[i].subtitles = (At(m, "subtitles") # {})
             /\ \A n \in DOMAIN j.audio : j.audio[n].group = m[i].group => j.audio[n].codec \in Range(m[i].codecs)
  <2>1. /\ \E v \in 1 .. R : m[i].uri = Video(rungs[v]) /\ m[i].codecs[1] = VideoCodec(lines, rungs[v])
        /\ \E g \in 1 .. Len(gs) : m[i].group = gs[g]
        /\ m[i].subtitles = (listed # <<>>)
        /\ \A n \in 1 .. N : rows[n].group = m[i].group => rows[n].codec \in Range(m[i].codecs)
    BY Zenon DEF VariantsSay
  <2>2. \E v \in DOMAIN j.video : m[i].uri = j.video[v].dir /\ m[i].codecs[1] = j.video[v].codec
    <3>1. PICK v \in 1 .. R : m[i].uri = Video(rungs[v]) /\ m[i].codecs[1] = VideoCodec(lines, rungs[v])
      BY <2>1
    <3>2. v \in DOMAIN j.video /\ j.video[v].dir = Video(rungs[v]) /\ j.video[v].codec = VideoCodec(lines, rungs[v])
      BY DEF ManifestSays
    <3> QED
      BY <3>1, <3>2
  <2>3. ASSUME m[i].group # "none"
        PROVE  \E k \in At(m, "audio") : m[k].group = m[i].group
    <3>1. PICK n \in 1 .. N : rows[n].group = m[i].group
      <4>1. PICK g \in 1 .. Len(gs) : m[i].group = gs[g]
        BY <2>1
      <4>2. gs[g] # "none"
        BY <2>3, <4>1
      <4>3. \E n \in 1 .. N : rows[n].group = gs[g]
        BY <4>2, Zenon DEF GroupsStand
      <4> QED
        BY <4>1, <4>3
    <3>2. PICK k \in At(m, "audio") : m[k].group = rows[n].group
      BY DEF AudioSays
    <3> QED
      BY <3>1, <3>2
  <2>4. m[i].subtitles = (At(m, "subtitles") # {})
    BY <2>1
  <2>5. \A n \in DOMAIN j.audio : j.audio[n].group = m[i].group => j.audio[n].codec \in Range(m[i].codecs)
    <3> SUFFICES ASSUME NEW n \in DOMAIN j.audio, j.audio[n].group = m[i].group
                 PROVE  j.audio[n].codec \in Range(m[i].codecs)
      OBVIOUS
    <3>1. n \in 1 .. N /\ rows[n].group = m[i].group /\ j.audio[n].codec = rows[n].codec
      BY DEF ManifestSays
    <3> QED
      BY <2>1, <3>1
  <2> QED
    BY <2>2, <2>3, <2>4, <2>5
<1>3. ASSUME NEW v \in DOMAIN j.video, NEW g \in {j.entries[n].group : n \in DOMAIN j.entries}
      PROVE  Cardinality({i \in At(m, "variant") : m[i].uri = j.video[v].dir /\ m[i].group = g}) = 1
  <2>1. PICK n \in 1 .. N : g = rows[n].group
    BY DEF ManifestSays
  <2>2. v \in 1 .. R /\ j.video[v].dir = Video(rungs[v])
    BY DEF ManifestSays
  <2>3. Cardinality({i \in At(m, "variant") : m[i].uri = Video(rungs[v]) /\ m[i].group = rows[n].group}) = 1
    BY <2>2 DEF VariantsSay
  <2> QED
    BY <2>1, <2>2, <2>3
<1>4. VariantsAgree(j)
  BY <1>2, <1>3 DEF VariantsAgree
<1> QED
  BY <1>1, <1>4

\* The groups its record names are those of its audio.
LEMMA GroupsNamed ==
  ASSUME NEW rows, NEW N \in Nat, IsAudio(rows, N), NEW subs, NEW asked
  PROVE  Range(HlsBlock(rows, subs, asked).audioGroups) = {rows[n].group : n \in 1 .. N}
<1> DEFINE known == <<"audio", "surround">>
           groups == {rows[n].group : n \in 1 .. N}
           places == {k \in DOMAIN known : known[k] \in groups}
           kept == Kept(known, places)
<1>1. /\ known \in Seq(AudioGroups) /\ Len(known) = 2 /\ DOMAIN known = 1 .. 2
      /\ known[1] = "audio" /\ known[2] = "surround"
  BY DEF AudioGroups
<1>2. kept \in Seq(AudioGroups) /\ \E at : KeptAt(kept, known, places, at, 2)
  <2> HIDE DEF known, places
  <2> QED
    BY <1>1, KeptIs
<1>3. PICK at : KeptAt(kept, known, places, at, 2)
  BY <1>2
<1>4. HlsBlock(rows, subs, asked).audioGroups = kept
  BY DEF HlsBlock, IsAudio
<1>5. groups \subseteq AudioGroups
  BY DEF IsAudio
<1>6. DOMAIN kept = 1 .. Len(kept) /\ places \subseteq 1 .. 2 /\ \A k \in 1 .. 2 : k \in places <=> known[k] \in groups
  <2>1. DOMAIN kept = 1 .. Len(kept)
    <3> HIDE DEF kept
    <3> QED
      BY <1>2
  <2>2. places \subseteq 1 .. 2 /\ \A k \in 1 .. 2 : k \in places <=> known[k] \in groups
    <3> HIDE DEF known, groups
    <3> QED
      BY <1>1
  <2> QED
    BY <2>1, <2>2
<1> HIDE DEF known, places, kept, groups
<1>7. /\ \A i \in 1 .. Len(kept) : at[i] \in places /\ kept[i] = known[at[i]]
      /\ \A k \in places \cap (1 .. 2) : \E i \in 1 .. Len(kept) : at[i] = k
  BY <1>3 DEF KeptAt
<1>8. \A i \in 1 .. Len(kept) : kept[i] \in groups
  BY <1>6, <1>7
<1>9. ASSUME NEW g \in groups  PROVE \E i \in 1 .. Len(kept) : kept[i] = g
  <2>1. PICK k \in 1 .. 2 : known[k] = g
    BY <1>1, <1>5 DEF AudioGroups
  <2>2. PICK i \in 1 .. Len(kept) : at[i] = k
    BY <1>6, <1>7, <2>1
  <2> QED
    BY <1>7, <2>1, <2>2
<1>10. Range(kept) = groups
  BY <1>6, <1>8, <1>9 DEF Range
<1> QED
  BY <1>4, <1>10 DEF groups

\* Its record is of the groups that have lines and of a bandwidth that is
\* enough.
LEMMA RecordSays ==
  ASSUME NEW m, NEW rows, NEW N \in Nat, IsAudio(rows, N), AudioSays(m, rows, N), NEW listed, NEW asked,
         NEW lines, NEW rungs, NEW R, NEW gs, NEW subs, VariantsSay(m, lines, rungs, R, rows, N, gs, subs),
         IsFiniteSet(DOMAIN m)
  PROVE  LET block == HlsBlock(rows, listed, asked)
             record == RecordOfPackage(block, m, "derived")
         IN /\ record.hls = {block} /\ Range(block.audioGroups) = {m[i].group : i \in At(m, "audio")}
            /\ record.peakBandwidthBps \in {m[i].bandwidth : i \in At(m, "variant")}
            /\ \A i \in At(m, "variant") : m[i].bandwidth <= record.peakBandwidthBps
<1> DEFINE block == HlsBlock(rows, listed, asked)
           record == RecordOfPackage(block, m, "derived")
<1>1. At(m, "variant") # {} /\ \A i \in At(m, "variant") : m[i].bandwidth \in Nat
  BY DEF VariantsSay
<1>2. /\ PeakBandwidth(m) \in {m[i].bandwidth : i \in At(m, "variant")}
      /\ \A i \in At(m, "variant") : m[i].bandwidth <= PeakBandwidth(m)
  BY <1>1, PeakBandwidthIs, Zenon
<1>3. record.peakBandwidthBps = PeakBandwidth(m) /\ record.hls = HlsOfRecord(block, m # <<>>, 6)
  BY DEF RecordOfPackage
<1>4. m # <<>>
  <2> SUFFICES ASSUME m = <<>>  PROVE FALSE
    OBVIOUS
  <2>1. DOMAIN m = {}
    OBVIOUS
  <2> QED
    BY <1>1, <2>1 DEF At
<1>5. record.hls = {block}
  BY <1>3, <1>4 DEF HlsOfRecord
<1>6. {rows[n].group : n \in 1 .. N} = {m[i].group : i \in At(m, "audio")}
  <2>1. \A n \in 1 .. N : \E i \in At(m, "audio") : m[i].group = rows[n].group
    BY DEF AudioSays
  <2>2. \A i \in At(m, "audio") : \E n \in 1 .. N : m[i].group = rows[n].group
    BY DEF AudioSays
  <2> QED
    BY <2>1, <2>2
<1>7. Range(block.audioGroups) = {m[i].group : i \in At(m, "audio")}
  BY <1>6, GroupsNamed, Zenon
<1> QED
  BY <1>2, <1>3, <1>5, <1>7, Zenon

\* The rungs in PQ carry the metadata, or none.
AllOrNone(written, rungs) == written \in {{}, {v \in DOMAIN rungs : rungs[v].range = "PQ"}}

\* So a run's playlist agrees with its manifest.
LEMMA PlaylistAgrees ==
  ASSUME NEW rungs, NEW R, NEW entries, NEW N, NEW subs, NEW s, IsPackage(rungs, R, entries, N, subs, s),
         NEW lines, LinesTell(lines), NEW asked, NEW written, AllOrNone(written, rungs)
  PROVE  LET j == Playlist(rungs, entries, subs, lines, written, asked)
         IN j.kind = "playlist" /\ AgreesHolds(j)
<1> DEFINE j == Playlist(rungs, entries, subs, lines, written, asked)
           rows == WithAutoselect(entries)
           peaks == PeaksOf(rungs, entries, subs)
           shown == SubtitlesAsked(subs, asked)
           m == AssembleMaster(lines, rungs, rows, OrderOf(entries), subs, peaks, asked)
           gs == GroupsInOrder(rows)
           listed == [k \in DOMAIN subs |-> [hls |-> TRUE]] \o <<[hls |-> FALSE]>>
           block == HlsBlock(rows, listed, asked)
<1>1. /\ IsVideo(rungs, R) /\ R \in Nat /\ DOMAIN rungs = 1 .. R /\ N \in Nat /\ IsEntries(entries, N) /\ s \in Nat
      /\ DOMAIN subs = 1 .. s /\ Len(subs) = s /\ DOMAIN entries = 1 .. N
  BY DEF IsPackage, IsVideo, IsEntries, Listing
<1>2. IsAudio(rows, N)
  BY <1>1, RowsPicked, Zenon
<1>3. /\ IsFiniteSet(DOMAIN m) /\ GroupsStand(gs, rows, N) /\ AudioSays(m, rows, N)
      /\ VariantsSay(m, lines, rungs, R, rows, N, gs, shown)
      /\ Cardinality(At(m, "subtitles")) = Len(shown)
      /\ \A i \in At(m, "subtitles") : \E k \in 1 .. Len(shown) : m[i] = TextLine(shown[k])
      /\ (shown # <<>>) = (At(m, "subtitles") # {})
  <2>1. PartsSay(m, lines, rungs, R, rows, N, gs, shown)
    BY PlaylistSays, Zenon
  <2> HIDE DEF m, rows, gs, shown
  <2> QED
    BY <2>1, Zenon DEF PartsSay
<1>4. /\ j.kind = "playlist" /\ j.rungs = rungs /\ j.entries = rows /\ j.master = m /\ j.written = written
      /\ j.listed = IF asked THEN Len(subs) ELSE 0
      /\ j.video = [v \in DOMAIN rungs |-> VideoEntry(lines, rungs[v], peaks.video[v], v \in written)]
      /\ j.audio = [n \in DOMAIN entries |-> AudioMeta(lines, n, rows[n], peaks.audio[n])]
      /\ j.record = RecordOfPackage(block, m, "derived")
  <2>1. j = [kind |-> "playlist", rungs |-> rungs, entries |-> rows, listed |-> IF asked THEN Len(subs) ELSE 0,
             written |-> written,
             video |-> [v \in DOMAIN rungs |-> VideoEntry(lines, rungs[v], peaks.video[v], v \in written)],
             audio |-> [n \in DOMAIN entries |-> AudioMeta(lines, n, rows[n], peaks.audio[n])],
             master |-> m, record |-> RecordOfPackage(block, m, "derived")]
    BY Zenon DEF Playlist, PeaksOf, OrderOf
  <2> HIDE DEF rows, peaks, m, block, j
  <2> QED
    BY <2>1
<1>5. Len(shown) = (IF asked THEN Len(subs) ELSE 0)
  BY DEF SubtitlesAsked
<1>6. block.subtitleGroup = (shown # <<>>)
  <2>1. Joins(listed, [k \in DOMAIN subs |-> [hls |-> TRUE]], <<[hls |-> FALSE]>>, s, 1)
    <3>1. Listing([k \in DOMAIN subs |-> [hls |-> TRUE]], s) /\ Listing(<<[hls |-> FALSE]>>, 1)
      BY <1>1 DEF Listing
    <3> QED
      BY <1>1, <3>1, JoinedAt
  <2>2. /\ DOMAIN listed = 1 .. (s + 1) /\ \A k \in 1 .. s : listed[k].hls
        /\ ~ listed[s + 1].hls
    <3>1. /\ DOMAIN listed = 1 .. (s + 1)
          /\ \A k \in 1 .. s : listed[k] = [l \in DOMAIN subs |-> [hls |-> TRUE]][k]
          /\ listed[s + 1] = <<[hls |-> FALSE]>>[1]
      <4>1. 1 \in 1 .. 1
        OBVIOUS
      <4> QED
        BY <2>1, <4>1, Zenon DEF Joins
    <3> HIDE DEF listed
    <3> QED
      BY <1>1, <3>1
  <2> HIDE DEF listed
  <2>3. block.subtitleGroup = (asked /\ \E k \in DOMAIN listed : listed[k].hls)
    BY DEF HlsBlock
  <2>4. (\E k \in DOMAIN listed : listed[k].hls) = (s # 0)
    <3>1. ASSUME NEW k \in DOMAIN listed, listed[k].hls  PROVE s # 0
      <4>1. k \in 1 .. s \/ k = s + 1
        BY <1>1, <2>2
      <4> QED
        BY <1>1, <2>2, <3>1, <4>1
    <3>2. ASSUME s # 0  PROVE \E k \in DOMAIN listed : listed[k].hls
      <4>1. 1 \in 1 .. s /\ 1 \in DOMAIN listed
        BY <1>1, <2>2, <3>2
      <4> QED
        BY <2>2, <4>1
    <3> QED
      BY <3>1, <3>2
  <2>5. (shown # <<>>) = (asked /\ s # 0)
    <3>1. (subs # <<>>) = (s # 0)
      <4>1. subs = <<>> => s = 0
        BY <1>1
      <4>2. s = 0 => subs = <<>>
        BY <1>1 DEF Listing, IsPackage
      <4> QED
        BY <4>1, <4>2
    <3> QED
      BY <3>1 DEF SubtitlesAsked
  <2> QED
    BY <2>3, <2>4, <2>5
<1> HIDE DEF j, rows, shown, m, gs, listed
<1>7. /\ DOMAIN j.video = 1 .. R
      /\ \A v \in 1 .. R : j.video[v].dir = Video(rungs[v]) /\ j.video[v].codec = VideoCodec(lines, rungs[v])
  BY <1>1, <1>4 DEF VideoEntry
<1>8. /\ DOMAIN j.audio = 1 .. N
      /\ \A n \in 1 .. N : /\ j.audio[n].dir = AudioDir(n) /\ j.audio[n].group = rows[n].group
                           /\ j.audio[n].codec = rows[n].codec
  <2>1. \A n \in 1 .. N : /\ j.audio[n].dir = AudioDir(n) /\ j.audio[n].group = rows[n].group
                          /\ j.audio[n].codec = AudioCodec(lines, rows[n])
    BY <1>1, <1>4 DEF AudioMeta
  <2>2. \A n \in 1 .. N : AudioCodec(lines, rows[n]) = rows[n].codec
    <3>1. \A n \in 1 .. N : rows[n].group \in AudioGroups /\ rows[n].codec = CodecOfGroup(rows[n].group)
      BY <1>2, Zenon DEF IsAudio
    <3> QED
      BY <3>1, AudioCodecIs, Zenon
  <2> QED
    BY <1>1, <1>4, <2>1, <2>2
<1>9. ManifestSays(j, rungs, R, rows, N, lines)
  <2>1. DOMAIN rows = 1 .. N /\ Len(rows) = N
    BY <1>2 DEF IsAudio
  <2> QED
    BY <1>4, <1>7, <1>8, <2>1, Zenon DEF ManifestSays
<1>10. AudioAgrees(j) /\ VariantsAgree(j)
  BY <1>1, <1>3, <1>4, <1>9, ManifestAgrees, Zenon
<1>11. TextsAgree(j)
  <2>1. \A i \in At(m, "subtitles") : (m[i].default => m[i].autoselect) /\ (m[i].forced => m[i].autoselect)
    <3> SUFFICES ASSUME NEW i \in At(m, "subtitles")
                 PROVE  (m[i].default => m[i].autoselect) /\ (m[i].forced => m[i].autoselect)
      OBVIOUS
    <3>1. PICK k \in 1 .. Len(shown) : m[i] = TextLine(shown[k])
      BY <1>3, Zenon
    <3> QED
      <4>1. \A sub : LET line == TextLine(sub)
                     IN (line.default => line.autoselect) /\ (line.forced => line.autoselect)
        BY DEF TextLine
      <4> QED
        BY <3>1, <4>1, Zenon
  <2> QED
    BY <1>3, <1>4, <1>5, <2>1 DEF TextsAgree
<1>12. RecordAgrees(j)
  <2> DEFINE record == RecordOfPackage(block, m, "derived")
  <2>1. block.subtitleGroup = (At(m, "subtitles") # {})
    BY <1>3, <1>6
  <2>2. /\ record.hls = {block} /\ Range(block.audioGroups) = {m[i].group : i \in At(m, "audio")}
        /\ record.peakBandwidthBps \in {m[i].bandwidth : i \in At(m, "variant")}
        /\ \A i \in At(m, "variant") : m[i].bandwidth <= record.peakBandwidthBps
    BY <1>1, <1>2, <1>3, RecordSays, Zenon
  <2>3. j.written \in {{}, {v \in DOMAIN j.rungs : j.rungs[v].range = "PQ"}}
    BY <1>4 DEF AllOrNone
  <2>4. j.record = record /\ j.master = m
    BY <1>4
  <2> HIDE DEF record, block
  <2>5. /\ j.record.hls # {}
        /\ \A b \in j.record.hls : /\ b.subtitleGroup = (At(m, "subtitles") # {})
                                   /\ Range(b.audioGroups) = {m[i].group : i \in At(m, "audio")}
    BY <2>1, <2>2, <2>4
  <2> QED
    BY <2>2, <2>3, <2>4, <2>5 DEF RecordAgrees
<1> QED
  BY <1>4, <1>10, <1>11, <1>12 DEF AgreesHolds, j

\* The run's playlist is written of such a package.
LEMMA PlaylistJob ==
  WritePlaylist => job'.kind = "playlist" /\ AgreesHolds(job')
<1> SUFFICES ASSUME WritePlaylist  PROVE job'.kind = "playlist" /\ AgreesHolds(job')
  OBVIOUS
<1>1. PICK ranges \in {<<"SDR">>, <<"PQ">>, <<"PQ", "SDR">>, <<"PQ", "PQ">>}, entries \in AudioRows,
           subs \in UpTo(1, TextRows), metadata \in BOOLEAN, asked \in BOOLEAN :
        LET rungs == [v \in DOMAIN ranges |-> VideoRung(v, ranges[v])]
            told == ShakaMaster(rungs, entries)
            left(lost) == Kept(told, DOMAIN told \ lost)
        IN \E takes \in IF metadata THEN SUBSET DOMAIN rungs ELSE {{}} :
           \E written \in WithHdr10(rungs, metadata, takes), m, n \in DOMAIN told \cup {0} :
             /\ m <= n
             /\ job' = Playlist(rungs, entries, subs, left({m, n}), written, asked)
  BY Zenon DEF WritePlaylist
<1> DEFINE rungs == [v \in DOMAIN ranges |-> VideoRung(v, ranges[v])]
           told == ShakaMaster(rungs, entries)
<1>2. PICK takes, written, places :
        /\ written \in WithHdr10(rungs, metadata, takes)
        /\ job' = Playlist(rungs, entries, subs, Kept(told, places), written, asked)
  BY <1>1
<1>3. PICK R \in 1 .. 2 : DOMAIN ranges = 1 .. R
  <2>1. DOMAIN ranges = 1 .. 1 \/ DOMAIN ranges = 1 .. 2
    OBVIOUS
  <2> QED
    BY <2>1
<1>4. IsVideo(rungs, R)
  BY <1>3 DEF IsVideo, VideoRung
<1>5. PICK N \in Nat : IsEntries(entries, N)
  BY RowsPackaged
<1>6. PICK s \in 0 .. 1 : subs \in [1 .. s -> TextRows]
  BY DEF UpTo
<1>7. IsPackage(rungs, R, entries, N, subs, s)
  <2>1. Listing(subs, s) /\ DOMAIN subs = 1 .. s /\ Len(subs) = s /\ s \in Nat
    BY <1>6 DEF Listing
  <2> QED
    BY <1>4, <1>5, <2>1, Zenon DEF IsPackage
<1>8. LinesTell(Kept(told, places))
  <2>1. IsAudio(entries, N)
    BY <1>5, RowsPicked, Zenon
  <2>2. R \in Nat /\ DOMAIN rungs = 1 .. R
    BY <1>4, Zenon DEF IsVideo
  <2>3. LinesTell(told)
    BY <1>5, <2>1, <2>2, ShakaTells, Zenon
  <2> QED
    BY <2>3, LeftTell, Zenon
<1>9. AllOrNone(written, rungs)
  <2>1. {v \in DOMAIN rungs : CarriesHdr10(rungs[v])} = {v \in DOMAIN rungs : rungs[v].range = "PQ"}
    <3>1. \A v \in DOMAIN rungs : rungs[v].hevc
      BY <1>4, Zenon DEF IsVideo
    <3> HIDE DEF rungs
    <3> QED
      BY <3>1 DEF CarriesHdr10
  <2> HIDE DEF rungs
  <2> QED
    BY <1>2, <2>1 DEF WithHdr10, AllOrNone
<1> HIDE DEF rungs, told
<1> DEFINE j == Playlist(rungs, entries, subs, Kept(told, places), written, asked)
<1>10. j.kind = "playlist" /\ AgreesHolds(j)
  <2>1. \A a : LET p == Playlist(rungs, entries, subs, Kept(told, places), written, a)
               IN p.kind = "playlist" /\ AgreesHolds(p)
    BY <1>7, <1>8, <1>9, PlaylistAgrees, Zenon
  <2> QED
    BY <2>1
<1> HIDE DEF j
<1>11. job' = j
  BY <1>2 DEF j
<1> QED
  BY <1>10, <1>11

\* The steps that write no playlist of a run.
LEMMA ToldKinds ==
  TellSource \/ NameExtra \/ WriteManifest \/ HandOver => job'.kind \in {"facts", "spoken", "manifest", "handed"}
<1>1. TellSource => job'.kind = "facts"
  BY DEF TellSource
<1>2. NameExtra => job'.kind = "spoken"
  BY DEF NameExtra
<1>3. WriteManifest => job'.kind = "manifest"
  BY DEF WriteManifest
<1>4. HandOver => job'.kind = "handed"
  BY DEF HandOver
<1> QED
  BY <1>1, <1>2, <1>3, <1>4

\* What a player reads is so.
PlayerReads(j) ==
  /\ j.kind = "group" => GroupHolds(j)
  /\ j.kind = "subtitles" => SubtitlesHold(j)
  /\ j.kind = "master" => BandwidthHolds(j)
  /\ j.kind = "playlist" => AgreesHolds(j)

\* Every step leaves it so.
LEMMA PlayerReadsOn ==
  ASSUME Next
  PROVE  PlayerReads(job')
<1>1. CASE WriteGroup
  BY <1>1, OrderJob DEF PlayerReads
<1>2. CASE WriteSubtitles
  BY <1>2, OrderJob DEF PlayerReads
<1>3. CASE WriteMaster
  BY <1>3, BandwidthJob DEF PlayerReads
<1>4. CASE WritePlaylist
  BY <1>4, PlaylistJob DEF PlayerReads
<1>5. CASE ~ WriteGroup /\ ~ WriteSubtitles /\ ~ WriteMaster /\ ~ WritePlaylist
  <2>1. job'.kind \notin {"group", "subtitles", "master", "playlist"}
    BY <1>5, PlanKinds, ReadingKinds, WritingKinds, LaterKinds, ToldKinds DEF Next, Reading, Writing
  <2> QED
    BY <2>1 DEF PlayerReads
<1> QED
  BY <1>1, <1>2, <1>3, <1>4, <1>5

\* THEOREM: what a player reads of a package holds: the lines of its master
\* are in order, a variant advertises enough for any window of what it plays,
\* and the master, the manifest and the record say the same of what was
\* packaged, whatever shaka's own master leaves out (_run_shaka_packager,
\* build_master, playlist_stats, hls_block, peak_bandwidth).
THEOREM MasterAlwaysHolds == Spec => []MasterHolds
<1>1. Init => PlayerReads(job)
  BY DEF Init, PlayerReads
<1>2. PlayerReads(job) /\ [Next]_job => PlayerReads(job)'
  <2> SUFFICES ASSUME PlayerReads(job), [Next]_job  PROVE PlayerReads(job)'
    OBVIOUS
  <2>1. CASE UNCHANGED job
    BY <2>1 DEF PlayerReads
  <2>2. CASE Next
    BY <2>2, PlayerReadsOn
  <2> QED
    BY <2>1, <2>2
<1>3. PlayerReads(job) => MasterHolds
  <2> SUFFICES ASSUME PlayerReads(job)  PROVE MasterHolds
    OBVIOUS
  <2>1. MasterInOrder
    BY OrderSays DEF PlayerReads
  <2>2. BandwidthCovers
    <3>1. job.kind = "master" => BandwidthHolds(job)
      BY DEF PlayerReads
    <3> QED
      BY <3>1, Zenon DEF BandwidthCovers, BandwidthHolds
  <2>3. MasterAgrees
    BY AgreesSays DEF PlayerReads
  <2> QED
    BY <2>1, <2>2, <2>3 DEF MasterHolds
<1> QED
  BY <1>1, <1>2, <1>3, PTL DEF Spec
=============================================================================
