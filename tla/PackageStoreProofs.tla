---------------------------- MODULE PackageStoreProofs ----------------------------
(***************************************************************************)
(* Proofs about PackageStore, for any entries, failures, runs and faults.  *)
(***************************************************************************)
EXTENDS PackageStore, SequenceTheorems, FiniteSetTheorems, TLAPS

\* A sequence without its last element, and that element.
LEMMA FrontLast ==
    ASSUME NEW S, NEW s \in Seq(S), s # << >>
    PROVE  /\ Front(s) \in Seq(S) /\ Len(Front(s)) = Len(s) - 1 /\ Len(s) \in Nat \ {0}
           /\ \A k \in 1..(Len(s) - 1) : Front(s)[k] = s[k]
           /\ Last(s) = s[Len(s)] /\ Last(s) \in S
<1>1. Len(s) \in Nat \ {0}
  BY EmptySeq
<1>2. \A i \in 1..(Len(s) - 1) : s[i] \in S
  BY <1>1, ElementOfSeq
<1> DEFINE n == Len(s) - 1
<1>3. n \in Int /\ n = Len(s) - 1
  BY <1>1
<1>4. \A i \in 1..n : s[i] \in S
  BY <1>2
<1> HIDE DEF n
<1>5. /\ SubSeq(s, 1, n) \in Seq(S)
      /\ Len(SubSeq(s, 1, n)) = IF 1 <= n THEN n - 1 + 1 ELSE 0
      /\ \A i \in 1..(n - 1 + 1) : SubSeq(s, 1, n)[i] = s[1 + i - 1]
  BY <1>3, <1>4, SubSeqProperties
<1>6. /\ SubSeq(s, 1, n) \in Seq(S) /\ Len(SubSeq(s, 1, n)) = n
      /\ \A i \in 1..n : SubSeq(s, 1, n)[i] = s[i]
  BY <1>1, <1>3, <1>5
<1>7. Front(s) = SubSeq(s, 1, n) /\ Last(s) = s[Len(s)]
  BY <1>3 DEF Front, Last
<1>8. s[Len(s)] \in S
  BY <1>1, ElementOfSeq
<1> QED BY <1>1, <1>3, <1>8, <1>6, <1>7

\* A sequence with one more.
LEMMA AppendLast ==
    ASSUME NEW S, NEW s \in Seq(S), NEW x \in S
    PROVE  /\ Append(s, x) \in Seq(S) /\ Append(s, x) # << >>
           /\ Len(s) \in Nat /\ Len(Append(s, x)) = Len(s) + 1
           /\ \A k \in 1..Len(s) : Append(s, x)[k] = s[k]
           /\ Append(s, x)[Len(s) + 1] = x /\ Last(Append(s, x)) = x
BY AppendProperties, LenProperties DEF Last

-----------------------------------------------------------------------------
(* The inductive invariant *)

\* The renames of the swap that are to be undone: p's live entry out of the way,
\* and p's staged one in.
Dn(p) == \E k \in 1..Len(moved) : moved[k].part = p /\ ~moved[k].up
Up(p) == \E k \in 1..Len(moved) : moved[k].part = p /\ moved[k].up

\* Where the entry that had p's live name is then.
Replaced(p) == [part |-> p, of |-> was[1][p], by |-> run]

Swapping == {"swap", "undo"}
Before   == {"open", "build"} \cup Swapping
After    == {"retire", "complete", "finish"}

\* What the run started from is older than it, and the grace of what it replaces
\* isn't over.
RunIsNew ==
    /\ makes[0] = {} /\ manifest <= run /\ expired \subseteq 1..run
    /\ pc # "idle" => run \in Runs /\ run \notin expired
    /\ pc \in Before => /\ manifest = was[2] /\ manifest < run
                        /\ was[1] \in [Parts -> 0..MaxRuns]
    /\ pc \in {"open", "build"} => live = was[1]

\* The list of the swap: an entry is moved out, and then at once the new one in.
MovedFits ==
    /\ pc \notin Swapping => moved = << >>
    /\ \A j, k \in 1..Len(moved) : moved[j] = moved[k] => j = k
    /\ \A j, k \in 1..Len(moved) :
        moved[j].part = moved[k].part /\ moved[j].up /\ ~moved[k].up => k < j
    /\ \A k \in 1..Len(moved) : ~moved[k].up /\ k # Len(moved) =>
        moved[k + 1] = [part |-> moved[k].part, up |-> TRUE]
    /\ \A p \in Parts : Dn(p) => was[1][p] # 0 /\ Replaced(p) \in old
    /\ \A p \in Parts : Up(p) /\ ~Dn(p) => was[1][p] = 0

\* What has a live name, half way through the swap and its undo.
LiveFits ==
    pc = "swap" \/ (pc = "undo" /\ ~torn) =>
        \A p \in Parts : live[p] = IF Up(p) THEN run ELSE IF Dn(p) THEN 0 ELSE was[1][p]

\* What is left to swap: all but what was moved in, and first what was moved out.
StagedFits ==
    pc = "swap" =>
        /\ staged = {p \in makes[run] : ~Up(p)}
        /\ \A p \in Parts : Dn(p) => p \in makes[run]
        /\ \A p \in Parts : Dn(p) /\ ~Up(p) => Turn(p)

\* A package is whole, but for a swap and an undo half way and what they left.
WholeFits ==
    /\ ~torn /\ pc \in Before => \A p \in makes[was[2]] : was[1][p] = was[2]
    /\ ~torn /\ pc \notin Swapping => \A p \in makes[manifest] : live[p] = manifest
    /\ pc \in After => manifest = run /\ ~torn /\ staged = {}
    /\ pc = "finish" => complete /\ ~failed

\* What an operator is told.
StatusFits ==
    /\ pc \in {"build"} \cup Swapping => stage
    /\ complete => manifest # 0
    /\ faults = 0 /\ pc = "idle" => ~stage /\ (run = 0 \/ complete \/ failed)
    /\ faults = 0 /\ manifest # 0 /\ ~complete => pc \in {"retire", "complete"}

IInv ==
    /\ TypeOK
    /\ RunIsNew /\ MovedFits /\ LiveFits /\ StagedFits /\ WholeFits /\ StatusFits


-----------------------------------------------------------------------------
(* Types *)

\* A step keeps the types of the run's own state,
LEMMA RunTyped ==
    ASSUME TypeOK, [Next]_vars
    PROVE  /\ pc' \in Places /\ run' \in 0..MaxRuns /\ run <= run'
           /\ manifest' \in 0..MaxRuns /\ faults' \in 0..MaxFaults /\ faults <= faults'
<1>f. MaxRuns \in Nat /\ MaxFaults \in Nat
  BY FolderOK
<1>t. /\ pc \in Places /\ run \in 0..MaxRuns /\ manifest \in 0..MaxRuns
      /\ faults \in 0..MaxFaults
  BY DEF TypeOK
<1> USE <1>f, <1>t DEF Places, Sound, Faulty, folder
<1>1. CASE Start \/ Open \/ Build \/ Undone
  BY <1>1 DEF Start, Open, Build, Undone
<1>2. CASE Displace \/ MoveUp
  <2>1. Sound \/ Faulty("call")
    BY <1>2 DEF Displace, MoveUp
  <2>2. pc' \in {"swap", "undo"} /\ UNCHANGED <<manifest, run>>
    BY <1>2 DEF Displace, MoveUp
  <2> QED BY <2>1, <2>2
<1>3. CASE ReplaceManifest \/ Undo
  BY <1>3 DEF ReplaceManifest, Undo
<1>4. CASE Retire
  <2>1. faults' = faults \/ Faulty("call")
    BY <1>4 DEF Retire
  <2>2. pc' \in {"complete", "fail"} /\ UNCHANGED <<manifest, run>>
    BY <1>4 DEF Retire
  <2> QED BY <2>1, <2>2
<1>5. CASE MarkComplete \/ Finish \/ Fail
  <2>1. Sound \/ Faulty("call")
    BY <1>5, Zenon DEF MarkComplete, Finish, Fail, WriteFailed
  <2>2. pc' \in {"finish", "fail", "idle"} /\ UNCHANGED <<manifest, run>>
    BY <1>5 DEF MarkComplete, Finish, Fail
  <2> QED BY <2>1, <2>2
<1>6. CASE Crash \/ SweepReplaced \/ SweepStaging \/ Age \/ UNCHANGED vars
  BY <1>6 DEF Crash, SweepReplaced, SweepStaging, Age, vars
<1>7. CASE \E r \in Runs : GraceEnds(r) \/ Timer(r)
  BY <1>7 DEF GraceEnds, Timer
<1> QED BY <1>1, <1>2, <1>3, <1>4, <1>5, <1>6, <1>7 DEF Next, Run

\* ... of its clocks,
LEMMA ClocksTyped ==
    ASSUME TypeOK, [Next]_vars
    PROVE  expired' \subseteq Runs /\ timers' \subseteq Runs
<1>t. expired \subseteq Runs /\ timers \subseteq Runs /\ old \subseteq Old
  BY DEF TypeOK
<1> USE <1>t DEF Old
<1>1. CASE Start \/ Open \/ Undone
  BY <1>1 DEF Start, Open, Undone
<1>2. CASE Build
  BY <1>2 DEF Build
<1>3. CASE Displace \/ MoveUp
  BY <1>3 DEF Displace, MoveUp
<1>4. CASE ReplaceManifest \/ Undo
  BY <1>4 DEF ReplaceManifest, Undo
<1>5. CASE Retire \/ MarkComplete \/ Finish
  BY <1>5 DEF Retire, MarkComplete, Finish
<1>6. CASE Fail
  BY <1>6 DEF Fail, WriteFailed
<1>7. CASE Crash \/ SweepReplaced \/ SweepStaging \/ Age \/ UNCHANGED vars
  BY <1>7 DEF Crash, SweepReplaced, SweepStaging, Age, vars
<1>8. CASE \E r \in Runs : GraceEnds(r) \/ Timer(r)
  BY <1>8 DEF GraceEnds, Timer
<1> QED BY <1>1, <1>2, <1>3, <1>4, <1>5, <1>6, <1>7, <1>8 DEF Next, Run

\* ... of its flags,
LEMMA FlagsTyped ==
    ASSUME TypeOK, [Next]_vars
    PROVE  complete' \in BOOLEAN /\ failed' \in BOOLEAN /\ torn' \in BOOLEAN
<1>t. complete \in BOOLEAN /\ failed \in BOOLEAN /\ torn \in BOOLEAN
  BY DEF TypeOK
<1> USE <1>t DEF folder
<1>1. CASE Start \/ Open \/ Undone
  BY <1>1 DEF Start, Open, Undone
<1>2. CASE Build
  BY <1>2 DEF Build
<1>3. CASE Displace \/ MoveUp
  BY <1>3 DEF Displace, MoveUp
<1>4. CASE ReplaceManifest \/ Undo
  BY <1>4 DEF ReplaceManifest, Undo
<1>5. CASE Retire \/ MarkComplete \/ Finish
  BY <1>5 DEF Retire, MarkComplete, Finish
<1>6. CASE Fail
  BY <1>6 DEF Fail, WriteFailed
<1>7. CASE Crash \/ SweepReplaced \/ SweepStaging \/ Age \/ UNCHANGED vars
  BY <1>7 DEF Crash, SweepReplaced, SweepStaging, Age, vars
<1>8. CASE \E r \in Runs : GraceEnds(r) \/ Timer(r)
  BY <1>8 DEF GraceEnds, Timer
<1> QED BY <1>1, <1>2, <1>3, <1>4, <1>5, <1>6, <1>7, <1>8 DEF Next, Run

\* ... of the staging folder,
LEMMA StagingTyped ==
    ASSUME TypeOK, [Next]_vars
    PROVE  stage' \in BOOLEAN /\ stale' \in BOOLEAN /\ staged' \subseteq Parts
<1>t. stage \in BOOLEAN /\ stale \in BOOLEAN /\ staged \subseteq Parts
  BY DEF TypeOK
<1> USE <1>t DEF staging
<1>1. CASE Start \/ Open \/ Undone
  BY <1>1 DEF Start, Open, Undone
<1>2. CASE Build
  BY <1>2 DEF Build
<1>3. CASE Displace \/ MoveUp
  BY <1>3 DEF Displace, MoveUp
<1>4. CASE ReplaceManifest
  BY <1>4 DEF ReplaceManifest
<1>9. CASE Undo
  <2>1. moved \in Seq(Moves) /\ moved # << >>
    BY <1>9 DEF Undo, TypeOK
  <2>4. Last(moved) \in Moves
    BY <2>1, FrontLast
  <2>2. Last(moved).part \in Parts
    BY <2>4 DEF Moves
  <2>3. staged' = staged \/ staged' = staged \cup {Last(moved).part}
    BY <1>9 DEF Undo
  <2> QED BY <1>9, <2>2, <2>3 DEF Undo
<1>5. CASE Retire \/ MarkComplete \/ Finish
  BY <1>5 DEF Retire, MarkComplete, Finish
<1>6. CASE Fail
  BY <1>6 DEF Fail, WriteFailed
<1>7. CASE Crash \/ SweepReplaced \/ SweepStaging \/ Age \/ UNCHANGED vars
  BY <1>7 DEF Crash, SweepReplaced, SweepStaging, Age, vars
<1>8. CASE \E r \in Runs : GraceEnds(r) \/ Timer(r)
  BY <1>8 DEF GraceEnds, Timer
<1> QED BY <1>1, <1>2, <1>3, <1>4, <1>5, <1>6, <1>7, <1>8, <1>9 DEF Next, Run

\* ... which is empty when it isn't there,
LEMMA NoneStaged ==
    ASSUME TypeOK, StatusFits, WholeFits, [Next]_vars
    PROVE  ~stage' => staged' = {} /\ ~stale'
<1>t. stage \in BOOLEAN /\ stale \in BOOLEAN /\ (~stage => staged = {} /\ ~stale)
  BY DEF TypeOK
<1>e. pc = "finish" => staged = {}
  BY DEF WholeFits, After
<1>w. pc \in {"build", "swap", "undo"} => stage
  BY DEF StatusFits, Swapping
<1> USE <1>t, <1>w DEF staging
<1>1. CASE Start \/ Open \/ Undone
  BY <1>1 DEF Start, Open, Undone
<1>2. CASE Build
  BY <1>2 DEF Build
<1>3. CASE Displace \/ MoveUp
  BY <1>3 DEF Displace, MoveUp
<1>4. CASE ReplaceManifest \/ Undo
  BY <1>4 DEF ReplaceManifest, Undo
<1>5. CASE Retire \/ MarkComplete
  BY <1>5 DEF Retire, MarkComplete
<1>9. CASE Finish
  BY <1>9, <1>e DEF Finish
<1>6. CASE Fail
  BY <1>6 DEF Fail, WriteFailed
<1>7. CASE Crash \/ SweepReplaced \/ SweepStaging \/ Age \/ UNCHANGED vars
  BY <1>7 DEF Crash, SweepReplaced, SweepStaging, Age, vars
<1>8. CASE \E r \in Runs : GraceEnds(r) \/ Timer(r)
  BY <1>8 DEF GraceEnds, Timer
<1> QED BY <1>1, <1>2, <1>3, <1>4, <1>5, <1>6, <1>7, <1>8, <1>9 DEF Next, Run

\* ... of the list of the swap,
LEMMA MovedTyped ==
    ASSUME TypeOK, [Next]_vars
    PROVE  moved' \in Seq(Moves)
<1>s. << >> \in Seq(Moves)
  BY EmptySeq
<1>a. \A m \in Moves : Append(moved, m) \in Seq(Moves)
  BY AppendLast DEF TypeOK
<1>f. moved # << >> => Front(moved) \in Seq(Moves)
  BY FrontLast DEF TypeOK
<1>m. \A p \in Parts, b \in BOOLEAN : [part |-> p, up |-> b] \in Moves
  BY DEF Moves
<1>t. moved \in Seq(Moves)
  BY DEF TypeOK
<1>1. CASE Displace \/ MoveUp
  BY <1>1, <1>a, <1>m, <1>t DEF Displace, MoveUp
<1>2. CASE ReplaceManifest \/ Undo \/ Fail \/ Crash
  BY <1>2, <1>s, <1>f, <1>t DEF ReplaceManifest, Undo, Fail, Crash
<1>3. CASE UNCHANGED moved
  BY <1>3, <1>t
<1>4. CASE Start \/ Open \/ Build \/ Undone \/ Retire \/ MarkComplete \/ Finish
  BY <1>4, <1>3 DEF Start, Open, Build, Undone, Retire, MarkComplete, Finish
<1>5. CASE SweepReplaced \/ SweepStaging \/ Age \/ UNCHANGED vars
  BY <1>5, <1>3 DEF SweepReplaced, SweepStaging, Age, vars
<1>6. CASE \E r \in Runs : GraceEnds(r) \/ Timer(r)
  BY <1>6, <1>3 DEF GraceEnds, Timer
<1> QED BY <1>1, <1>2, <1>4, <1>5, <1>6 DEF Next, Run

\* ... and of the entries.
LEMMA EntriesTyped ==
    ASSUME TypeOK, RunIsNew, MovedFits, [Next]_vars
    PROVE  /\ live' \in [Parts -> 0..MaxRuns] /\ old' \subseteq Old
           /\ makes' \in [0..MaxRuns -> SUBSET Parts]
<1> DEFINE T == [Parts -> 0..MaxRuns]
           M == [0..MaxRuns -> SUBSET Parts]
<1>t. live \in T /\ old \subseteq Old /\ makes \in M /\ staged \subseteq Parts
  BY DEF TypeOK
<1>u. \A p \in Parts, n \in 0..MaxRuns : [live EXCEPT ![p] = n] \in T
  BY <1>t
<1>r. pc # "idle" => run \in Runs /\ run \in 0..MaxRuns
  BY FolderOK DEF RunIsNew, TypeOK
<1>o. \A p \in Parts, n \in Runs, r \in Runs : [part |-> p, of |-> n, by |-> r] \in Old
  BY DEF Old
<1>l. \A p \in Parts : live[p] \in 0..MaxRuns /\ (live[p] # 0 => live[p] \in Runs)
  BY FolderOK DEF Runs, TypeOK
<1>z. 0 \in 0..MaxRuns
  BY FolderOK
<1>1. CASE Build
  <2>1. live' \in T /\ old' \subseteq Old
    BY <1>1, <1>t DEF Build, folder
  <2>2. \A without \in SUBSET Optional : [makes EXCEPT ![run] = Parts \ without] \in M
    BY <1>t
  <2> HIDE DEF M
  <2>3. makes' \in M
    BY <1>1, <1>t, <2>2 DEF Build
  <2> QED BY <2>1, <2>3 DEF M
<1>2. CASE Retire
  <2>1. live' \in T
    BY <1>2, <1>t, <1>z DEF Retire
  <2>2. ASSUME NEW e \in old' PROVE e \in Old
    BY <1>2, <1>t, <1>r, <1>o, <1>l, <2>2 DEF Retire
  <2>3. makes' = makes
    BY <1>2 DEF Retire, staging
  <2> QED BY <1>t, <2>1, <2>2, <2>3
<1> HIDE DEF T, M
<1>3. CASE Displace
  <2>1. makes' = makes
    BY <1>3 DEF Displace, staging
  <2>2. CASE UNCHANGED <<live, old>>
    BY <1>t, <2>1, <2>2 DEF T, M
  <2>3. ASSUME NEW p \in Parts, live[p] # 0, live' = [live EXCEPT ![p] = 0],
               old' = old \cup {[part |-> p, of |-> live[p], by |-> run]}
        PROVE  live' \in T /\ old' \subseteq Old
    BY <1>3, <1>t, <1>u, <1>r, <1>o, <1>l, <1>z, <2>3 DEF Displace
  <2> QED BY <1>3, <1>t, <2>1, <2>2, <2>3 DEF Displace, T, M
<1>4. CASE MoveUp
  BY <1>4, <1>t, <1>u, <1>r DEF MoveUp, T, M
<1>5. CASE Undo
  <2> DEFINE m == Last(moved)
  <2>1. makes' = makes
    BY <1>5 DEF Undo
  <2>6. moved \in Seq(Moves) /\ moved # << >>
    BY <1>5 DEF TypeOK, Undo
  <2>7. m \in Moves /\ Len(moved) \in Nat \ {0} /\ m = moved[Len(moved)]
    BY <2>6, FrontLast
  <2>2. m.part \in Parts
    BY <2>7 DEF Moves
  <2>3. ~m.up => was[1][m.part] \in 0..MaxRuns
    BY <1>5, <2>2 DEF Undo, RunIsNew, Before, Swapping
  <2>4. \/ UNCHANGED live
        \/ live' = [live EXCEPT ![m.part] = 0]
        \/ ~m.up /\ live' = [live EXCEPT ![m.part] = was[1][m.part]]
    BY <1>5 DEF Undo
  <2>5. old' \subseteq old
    BY <1>5 DEF Undo
  <2> HIDE DEF m
  <2> QED BY <1>t, <1>u, <1>z, <2>1, <2>2, <2>3, <2>4, <2>5 DEF T, M
<1>6. CASE UNCHANGED <<live, makes>> /\ old' \subseteq old
  BY <1>6, <1>t DEF T, M
<1>7. CASE Start \/ Open \/ Undone \/ ReplaceManifest
  BY <1>7, <1>6 DEF Start, Open, Undone, ReplaceManifest, InGrace, folder, staging
<1>8. CASE MarkComplete \/ Finish \/ Fail
  BY <1>8, <1>6 DEF MarkComplete, Finish, Fail, folder, staging
<1>9. CASE Crash \/ SweepReplaced \/ SweepStaging \/ Age \/ UNCHANGED vars
  BY <1>9, <1>6 DEF Crash, SweepReplaced, SweepStaging, Age, folder, staging, vars
<1>10. CASE \E r \in Runs : GraceEnds(r) \/ Timer(r)
  BY <1>10, <1>6 DEF GraceEnds, Timer, folder, staging
<1> QED BY <1>1, <1>2, <1>3, <1>4, <1>5, <1>7, <1>8, <1>9, <1>10 DEF Next, Run, T, M

LEMMA Typed ==
    ASSUME TypeOK, RunIsNew, MovedFits, WholeFits, StatusFits, [Next]_vars
    PROVE  TypeOK'
BY RunTyped, ClocksTyped, FlagsTyped, StagingTyped, NoneStaged, MovedTyped, EntriesTyped DEF TypeOK
-----------------------------------------------------------------------------
(* The list of the swap *)

\* An entry's turn is its only.
LEMMA OneTurn ==
    ASSUME NEW p \in Parts, NEW q \in Parts, Turn(p), Turn(q)
    PROVE  p = q
BY FolderOK DEF Turn

\* A rename is listed.
LEMMA Listed ==
    ASSUME TypeOK, NEW m \in Moves, moved' = Append(moved, m)
    PROVE  /\ Len(moved) \in Nat /\ Len(moved') = Len(moved) + 1
           /\ \A k \in 1..Len(moved) : moved'[k] = moved[k]
           /\ moved'[Len(moved) + 1] = m
           /\ \A p : Up(p)' <=> Up(p) \/ (m.up /\ m.part = p)
           /\ \A p : Dn(p)' <=> Dn(p) \/ (~m.up /\ m.part = p)
<1>1. /\ Len(moved) \in Nat /\ Len(moved') = Len(moved) + 1
      /\ \A k \in 1..Len(moved) : moved'[k] = moved[k]
      /\ moved'[Len(moved) + 1] = m
  BY AppendLast DEF TypeOK
<1>2. \A k : k \in 1..Len(moved') <=> k \in 1..Len(moved) \/ k = Len(moved) + 1
  BY <1>1
<1>3. \A p : Up(p)' <=> Up(p) \/ (m.up /\ m.part = p)
  BY <1>1, <1>2 DEF Up
<1>4. \A p : Dn(p)' <=> Dn(p) \/ (~m.up /\ m.part = p)
  BY <1>1, <1>2 DEF Dn
<1> QED BY <1>1, <1>3, <1>4

\* The last rename is off the list.
LEMMA Unlisted ==
    ASSUME TypeOK, MovedFits, moved # << >>, moved' = Front(moved)
    PROVE  /\ Len(moved) \in Nat \ {0} /\ Len(moved') = Len(moved) - 1
           /\ \A k \in 1..Len(moved') : moved'[k] = moved[k]
           /\ Last(moved) = moved[Len(moved)] /\ Last(moved) \in Moves
           /\ \A p : Up(p)' <=> Up(p) /\ ~(Last(moved).up /\ Last(moved).part = p)
           /\ \A p : Dn(p)' <=> Dn(p) /\ ~(~Last(moved).up /\ Last(moved).part = p)
<1> DEFINE m == Last(moved)
<1>1. moved \in Seq(Moves)
  BY DEF TypeOK
<1>2. /\ Len(moved) \in Nat \ {0} /\ Len(moved') = Len(moved) - 1
      /\ \A k \in 1..Len(moved') : moved'[k] = moved[k]
      /\ m = moved[Len(moved)] /\ m \in Moves
  BY <1>1, FrontLast
<1> HIDE DEF m
<1>3. \A k : k \in 1..Len(moved) <=> k \in 1..Len(moved') \/ k = Len(moved)
  BY <1>2
<1>4. \A k \in 1..Len(moved') : moved'[k] # m
  BY <1>2, <1>3 DEF MovedFits
<1>5. \A k \in 1..Len(moved') : moved'[k] \in Moves
  BY <1>1, <1>2, <1>3, ElementOfSeq
<1>9. \A x, y \in Moves : /\ x.up \in BOOLEAN
                          /\ x.part = y.part /\ x.up = y.up => x = y
  BY DEF Moves
<1>6. \A k \in 1..Len(moved') : moved'[k].part # m.part \/ (moved'[k].up /\ ~m.up)
                               \/ (~moved'[k].up /\ m.up)
  BY <1>2, <1>4, <1>5, <1>9
<1>7. \A p : Up(p)' <=> Up(p) /\ ~(m.up /\ m.part = p)
  BY <1>2, <1>3, <1>6 DEF Up
<1>8. \A p : Dn(p)' <=> Dn(p) /\ ~(~m.up /\ m.part = p)
  BY <1>2, <1>3, <1>6 DEF Dn
<1> QED BY <1>2, <1>7, <1>8 DEF m

\* A list that ends with an entry moved out has not its new one moved in.
LEMMA LastOut ==
    ASSUME TypeOK, MovedFits, Len(moved) \in Nat \ {0}, ~moved[Len(moved)].up
    PROVE  LET p == moved[Len(moved)].part IN Dn(p) /\ ~Up(p)
BY DEF MovedFits, Dn, Up

\* A part that was moved out and not yet in is the last of the list.
LEMMA OutIsLast ==
    ASSUME TypeOK, MovedFits, NEW p \in Parts, Dn(p), ~Up(p)
    PROVE  Len(moved) \in Nat \ {0} /\ moved[Len(moved)].part = p
<1>1. Len(moved) \in Nat
  BY LenProperties DEF TypeOK
<1>2. PICK k \in 1..Len(moved) : moved[k].part = p /\ ~moved[k].up
  BY DEF Dn
<1>3. CASE k # Len(moved)
  <2>1. k + 1 \in 1..Len(moved) /\ moved[k + 1] = [part |-> p, up |-> TRUE]
    BY <1>1, <1>2, <1>3 DEF MovedFits
  <2> QED BY <2>1 DEF Up
<1> QED BY <1>1, <1>2, <1>3

-----------------------------------------------------------------------------
(* The steps of a swap and its undo *)

\* What the list and the folder of a swap say of the part whose turn it is.
LEMMA AtTurn ==
    ASSUME IInv, pc = "swap", NEW p \in Parts, Turn(p)
    PROVE  /\ ~Up(p) /\ p \in makes[run]
           /\ \A q \in Parts : Dn(q) /\ ~Up(q) => q = p
           /\ live[p] # 0 => ~Dn(p) /\ live[p] = was[1][p]
           /\ live[p] = 0 /\ ~Dn(p) => was[1][p] = 0
           /\ Len(moved) \in Nat
           /\ Len(moved) # 0 /\ ~moved[Len(moved)].up =>
                /\ Dn(p) /\ live[p] = 0
                /\ moved[Len(moved)].part = p
<1>1. ~Up(p) /\ p \in makes[run]
  BY DEF IInv, StagedFits, Turn
<1>2. \A q \in Parts : Dn(q) /\ ~Up(q) => q = p
  BY OneTurn DEF IInv, StagedFits
<1>3. live[p] = IF Dn(p) THEN 0 ELSE was[1][p]
  BY <1>1 DEF IInv, LiveFits
<1>4. Len(moved) \in Nat
  BY LenProperties DEF IInv, TypeOK
<1>5. ASSUME Len(moved) # 0, ~moved[Len(moved)].up
      PROVE  Dn(p) /\ moved[Len(moved)].part = p
  <2> DEFINE q == moved[Len(moved)].part
  <2>1. Dn(q) /\ ~Up(q)
    BY <1>4, <1>5, LastOut DEF IInv
  <2>2. moved[Len(moved)] \in Moves
    BY <1>4, <1>5, ElementOfSeq DEF IInv, TypeOK
  <2>3. q \in Parts
    BY <2>2 DEF Moves
  <2> HIDE DEF q
  <2>4. q = p
    BY <2>1, <2>3, <1>2
  <2> QED BY <2>1, <2>4 DEF q
<1> QED BY <1>1, <1>2, <1>3, <1>4, <1>5

\* The live entry out of the way.
LEMMA DisplaceFits ==
    ASSUME IInv, TypeOK', Displace
    PROVE  RunIsNew' /\ MovedFits' /\ LiveFits' /\ StagedFits' /\ WholeFits' /\ StatusFits'
<1> USE DEF staging
<1>1. /\ pc = "swap" /\ pc' \in Swapping /\ run \in Runs
      /\ UNCHANGED <<manifest, complete, failed, expired, stage, staged, makes, run, was, torn>>
      /\ faults' = 0 => faults = 0
  BY DEF Displace, IInv, RunIsNew, Swapping, Sound, Faulty, TypeOK
<1>2. RunIsNew'
  BY <1>1 DEF IInv, RunIsNew, Before, Swapping
<1>3. WholeFits' /\ StatusFits'
  BY <1>1 DEF IInv, WholeFits, StatusFits, Before, After, Swapping
<1>4. CASE UNCHANGED <<old, live, moved>> /\ pc' = "undo"
  BY <1>1, <1>2, <1>3, <1>4 DEF IInv, MovedFits, LiveFits, StagedFits, Dn, Up, Replaced, Swapping
<1>5. ASSUME NEW p \in Parts, Turn(p), live[p] # 0, pc' = pc, live' = [live EXCEPT ![p] = 0],
             old' = old \cup {[part |-> p, of |-> live[p], by |-> run]},
             moved' = Append(moved, [part |-> p, up |-> FALSE])
      PROVE  MovedFits' /\ LiveFits' /\ StagedFits'
  <2> DEFINE m == [part |-> p, up |-> FALSE]
  <2>1. /\ ~Up(p) /\ ~Dn(p) /\ p \in makes[run]
        /\ \A q \in Parts : Dn(q) => Up(q)
        /\ live[p] = was[1][p]
        /\ Len(moved) \in Nat
        /\ Len(moved) # 0 => moved[Len(moved)].up
    BY <1>1, <1>5, AtTurn
  <2>2. m \in Moves /\ ~m.up /\ m.part = p
    BY DEF Moves
  <2>3. moved' = Append(moved, m)
    BY <1>5
  <2> HIDE DEF m
  <2>4. /\ Len(moved') = Len(moved) + 1
        /\ \A k \in 1..Len(moved) : moved'[k] = moved[k]
        /\ moved'[Len(moved) + 1] = m
        /\ \A q : Up(q)' <=> Up(q)
        /\ \A q : Dn(q)' <=> Dn(q) \/ q = p
    BY <2>2, <2>3, Listed DEF IInv
  <2>5. \A k \in 1..Len(moved) : moved[k].part # p
    BY <2>1 DEF Up, Dn
  <2>6. \A j, k \in 1..Len(moved') : moved'[j] = moved'[k] => j = k
    BY <2>1, <2>2, <2>4, <2>5 DEF IInv, MovedFits
  <2>7. \A j, k \in 1..Len(moved') :
          moved'[j].part = moved'[k].part /\ moved'[j].up /\ ~moved'[k].up => k < j
    BY <2>1, <2>2, <2>4, <2>5 DEF IInv, MovedFits
  <2>8. \A k \in 1..Len(moved') : ~moved'[k].up /\ k # Len(moved') =>
          moved'[k + 1] = [part |-> moved'[k].part, up |-> TRUE]
    <3>1. ASSUME NEW k \in 1..Len(moved'), ~moved'[k].up, k # Len(moved')
          PROVE  k \in 1..Len(moved) /\ k # Len(moved) /\ k + 1 \in 1..Len(moved) /\ ~moved[k].up
      BY <2>1, <2>4, <3>1
    <3>2. ASSUME NEW k \in 1..Len(moved), k # Len(moved), ~moved[k].up
          PROVE  moved[k + 1] = [part |-> moved[k].part, up |-> TRUE]
      BY <3>2 DEF IInv, MovedFits
    <3> QED BY <2>4, <3>1, <3>2
  <2>9. \A q \in Parts : Replaced(q)' = Replaced(q)
    BY <1>1 DEF Replaced
  <2>10. \A q \in Parts : Dn(q)' => was'[1][q] # 0 /\ Replaced(q)' \in old'
    <3>1. was[1][p] # 0 /\ Replaced(p) \in old'
      BY <1>5, <2>1 DEF Replaced
    <3> QED BY <1>1, <1>5, <2>4, <2>9, <3>1 DEF IInv, MovedFits
  <2>11. \A q \in Parts : Up(q)' /\ ~Dn(q)' => was'[1][q] = 0
    BY <1>1, <2>4 DEF IInv, MovedFits
  <2>12. MovedFits'
    BY <1>1, <2>6, <2>7, <2>8, <2>10, <2>11 DEF MovedFits
  <2>13. LiveFits'
    BY <1>1, <1>5, <2>1, <2>4 DEF IInv, LiveFits, TypeOK
  <2>14. \A q \in Parts : Turn(q)' <=> Turn(q)
    BY <1>1 DEF Turn
  <2>15. StagedFits'
    BY <1>1, <1>5, <2>1, <2>4, <2>14 DEF IInv, StagedFits
  <2> QED BY <2>12, <2>13, <2>15
<1> QED BY <1>2, <1>3, <1>4, <1>5 DEF Displace

\* The staged one in.
LEMMA MoveUpFits ==
    ASSUME IInv, TypeOK', MoveUp
    PROVE  RunIsNew' /\ MovedFits' /\ LiveFits' /\ StagedFits' /\ WholeFits' /\ StatusFits'
<1>1. /\ pc = "swap" /\ pc' \in Swapping /\ run \in Runs
      /\ UNCHANGED <<manifest, complete, failed, old, expired, stage, makes, run, was, torn>>
      /\ faults' = 0 => faults = 0
  BY DEF MoveUp, IInv, RunIsNew, Swapping, Sound, Faulty, TypeOK
<1>2. RunIsNew'
  BY <1>1 DEF IInv, RunIsNew, Before, Swapping
<1>3. WholeFits' /\ StatusFits'
  BY <1>1 DEF IInv, WholeFits, StatusFits, Before, After, Swapping
<1>4. CASE UNCHANGED <<live, staged, moved>> /\ pc' = "undo"
  BY <1>1, <1>2, <1>3, <1>4 DEF IInv, MovedFits, LiveFits, StagedFits, Dn, Up, Replaced, Swapping
<1>5. ASSUME NEW p \in Parts, Turn(p), live[p] = 0, pc' = pc, live' = [live EXCEPT ![p] = run],
             staged' = staged \ {p},
             moved' = Append(moved, [part |-> p, up |-> TRUE])
      PROVE  MovedFits' /\ LiveFits' /\ StagedFits'
  <2> DEFINE m == [part |-> p, up |-> TRUE]
  <2>1. /\ ~Up(p) /\ p \in makes[run]
        /\ \A q \in Parts : Dn(q) /\ ~Up(q) => q = p
        /\ ~Dn(p) => was[1][p] = 0
        /\ Len(moved) \in Nat
        /\ Len(moved) # 0 /\ ~moved[Len(moved)].up => moved[Len(moved)].part = p
    BY <1>1, <1>5, AtTurn
  <2>2. m \in Moves /\ m.up /\ m.part = p
    BY DEF Moves
  <2>3. moved' = Append(moved, m)
    BY <1>5
  <2> HIDE DEF m
  <2>4. /\ Len(moved') = Len(moved) + 1
        /\ \A k \in 1..Len(moved) : moved'[k] = moved[k]
        /\ moved'[Len(moved) + 1] = m
        /\ \A q : Up(q)' <=> Up(q) \/ q = p
        /\ \A q : Dn(q)' <=> Dn(q)
    BY <2>2, <2>3, Listed DEF IInv
  <2>5. \A k \in 1..Len(moved) : moved[k] # m
    BY <2>1, <2>2 DEF Up
  <2>6. \A j, k \in 1..Len(moved') : moved'[j] = moved'[k] => j = k
    BY <2>1, <2>2, <2>4, <2>5 DEF IInv, MovedFits
  <2>7. \A j, k \in 1..Len(moved') :
          moved'[j].part = moved'[k].part /\ moved'[j].up /\ ~moved'[k].up => k < j
    BY <2>1, <2>2, <2>4 DEF IInv, MovedFits
  <2>8. \A k \in 1..Len(moved') : ~moved'[k].up /\ k # Len(moved') =>
          moved'[k + 1] = [part |-> moved'[k].part, up |-> TRUE]
    <3>1. ASSUME NEW k \in 1..Len(moved), k # Len(moved), ~moved[k].up
          PROVE  moved'[k + 1] = [part |-> moved'[k].part, up |-> TRUE]
      <4>1. k \in 1..Len(moved) /\ k + 1 \in 1..Len(moved)
        BY <2>1, <3>1
      <4>2. moved[k + 1] = [part |-> moved[k].part, up |-> TRUE]
        BY <3>1 DEF IInv, MovedFits
      <4> QED BY <2>4, <4>1, <4>2
    <3>2. ASSUME Len(moved) # 0, ~moved[Len(moved)].up
          PROVE  moved'[Len(moved) + 1] = [part |-> moved'[Len(moved)].part, up |-> TRUE]
      <4>1. Len(moved) \in 1..Len(moved)
        BY <2>1, <3>2
      <4>2. moved'[Len(moved)].part = p
        BY <2>1, <2>4, <3>2, <4>1
      <4>3. moved'[Len(moved) + 1] = [part |-> p, up |-> TRUE]
        BY <2>4 DEF m
      <4> QED BY <4>2, <4>3
    <3>3. ASSUME NEW k \in 1..Len(moved'), ~moved'[k].up, k # Len(moved')
          PROVE  k \in 1..Len(moved) /\ ~moved[k].up
      BY <2>1, <2>4, <3>3
    <3>4. ASSUME NEW k \in 1..Len(moved'), ~moved'[k].up, k # Len(moved')
          PROVE  moved'[k + 1] = [part |-> moved'[k].part, up |-> TRUE]
      <4>1. CASE k = Len(moved)
        BY <2>1, <3>2, <3>3, <3>4, <4>1
      <4>2. CASE k # Len(moved)
        BY <3>1, <3>3, <3>4, <4>2
      <4> QED BY <4>1, <4>2
    <3> QED BY <3>4
  <2>9. \A q \in Parts : Replaced(q)' = Replaced(q)
    BY <1>1 DEF Replaced
  <2>10. \A q \in Parts : Dn(q)' => was'[1][q] # 0 /\ Replaced(q)' \in old'
    BY <1>1, <1>5, <2>4, <2>9 DEF IInv, MovedFits
  <2>11. \A q \in Parts : Up(q)' /\ ~Dn(q)' => was'[1][q] = 0
    BY <1>1, <2>1, <2>4 DEF IInv, MovedFits
  <2>12. MovedFits'
    BY <1>1, <2>6, <2>7, <2>8, <2>10, <2>11 DEF MovedFits
  <2>13. LiveFits'
    BY <1>1, <1>5, <2>1, <2>4 DEF IInv, LiveFits, TypeOK
  <2>14. \A q \in Parts : Dn(q)' => Up(q)'
    BY <2>1, <2>4
  <2>16. staged' = {q \in makes[run] : ~Up(q)}'
    BY <1>1, <1>5, <2>4 DEF IInv, StagedFits
  <2>15. StagedFits'
    BY <1>1, <1>5, <2>4, <2>14, <2>16 DEF IInv, StagedFits
  <2> QED BY <2>12, <2>13, <2>15
<1> QED BY <1>2, <1>3, <1>4, <1>5 DEF MoveUp

\* The last rename back.
LEMMA UndoFits ==
    ASSUME IInv, TypeOK', Undo
    PROVE  RunIsNew' /\ MovedFits' /\ LiveFits' /\ StagedFits' /\ WholeFits' /\ StatusFits'
<1> DEFINE m == Last(moved)
           p == m.part
<1>1. /\ pc = "undo" /\ pc' = "undo" /\ run \in Runs
      /\ UNCHANGED <<manifest, complete, failed, expired, stage, makes, run, was>>
      /\ moved # << >> /\ moved' = Front(moved)
      /\ ~torn' => ~torn
      /\ faults' = 0 => faults = 0
  BY DEF Undo, IInv, RunIsNew, Sound, Faulty, TypeOK
<1>2. RunIsNew' /\ StagedFits'
  BY <1>1 DEF IInv, RunIsNew, StagedFits, Before, Swapping
<1>3. WholeFits' /\ StatusFits'
  BY <1>1 DEF IInv, WholeFits, StatusFits, Before, After, Swapping
<1>4. /\ Len(moved) \in Nat \ {0} /\ Len(moved') = Len(moved) - 1
      /\ \A k \in 1..Len(moved') : moved'[k] = moved[k]
      /\ m = moved[Len(moved)] /\ m \in Moves
      /\ \A q : Up(q)' <=> Up(q) /\ ~(m.up /\ p = q)
      /\ \A q : Dn(q)' <=> Dn(q) /\ ~(~m.up /\ p = q)
  BY <1>1, Unlisted DEF IInv
<1>5. p \in Parts
  BY <1>4 DEF Moves
<1>6. m.up => Up(p)
  BY <1>4 DEF Up
<1>7. ~m.up => Dn(p) /\ ~Up(p)
  BY <1>4, LastOut DEF IInv
<1>8. /\ m.up => UNCHANGED old /\ (live' = [live EXCEPT ![p] = 0] \/ torn')
      /\ ~m.up => old' = old \ {Replaced(p)} \/ old' = old
      /\ ~m.up /\ ~torn' => \/ live' = [live EXCEPT ![p] = was[1][p]]
                            \/ live[p] # 0 \/ Replaced(p) \notin old
  BY DEF Undo, Replaced
<1> HIDE DEF m, p
<1>9. \A q \in Parts : Replaced(q)' = Replaced(q) /\ (q # p => Replaced(q) # Replaced(p))
  BY <1>1 DEF Replaced
<1>10. \A j, k \in 1..Len(moved') : moved'[j] = moved'[k] => j = k
  BY <1>4 DEF IInv, MovedFits
<1>11. \A j, k \in 1..Len(moved') :
        moved'[j].part = moved'[k].part /\ moved'[j].up /\ ~moved'[k].up => k < j
  BY <1>4 DEF IInv, MovedFits
<1>12. \A k \in 1..Len(moved') : ~moved'[k].up /\ k # Len(moved') =>
        moved'[k + 1] = [part |-> moved'[k].part, up |-> TRUE]
  BY <1>4 DEF IInv, MovedFits
<1>13. \A q \in Parts : Dn(q)' => was'[1][q] # 0 /\ Replaced(q)' \in old'
  BY <1>1, <1>4, <1>8, <1>9 DEF IInv, MovedFits
<1>14. \A q \in Parts : Up(q)' /\ ~Dn(q)' => was'[1][q] = 0
  BY <1>1, <1>4, <1>7 DEF IInv, MovedFits
<1>15. MovedFits'
  BY <1>1, <1>10, <1>11, <1>12, <1>13, <1>14 DEF MovedFits, Swapping
<1>16. ASSUME ~torn', NEW q \in Parts
       PROVE  live'[q] = IF Up(q)' THEN run ELSE IF Dn(q)' THEN 0 ELSE was[1][q]
  <2>1. live[q] = IF Up(q) THEN run ELSE IF Dn(q) THEN 0 ELSE was[1][q]
    BY <1>1, <1>16 DEF IInv, LiveFits
  <2>2. live[p] = IF Up(p) THEN run ELSE IF Dn(p) THEN 0 ELSE was[1][p]
    BY <1>1, <1>5, <1>16 DEF IInv, LiveFits
  <2>3. CASE m.up
    <3>1. live' = [live EXCEPT ![p] = 0]
      BY <1>8, <1>16, <2>3
    <3>2. Up(p) /\ (~Dn(p) => was[1][p] = 0)
      BY <1>5, <1>6, <1>14, <2>3, <1>4, <1>1 DEF IInv, MovedFits
    <3> QED BY <1>4, <1>5, <2>1, <2>3, <3>1, <3>2 DEF IInv, TypeOK
  <2>4. CASE ~m.up
    <3>1. live[p] = 0 /\ Replaced(p) \in old
      BY <1>5, <1>7, <2>2, <2>4 DEF IInv, MovedFits
    <3>2. live' = [live EXCEPT ![p] = was[1][p]]
      BY <1>8, <1>16, <2>4, <3>1
    <3> QED BY <1>4, <1>5, <1>7, <2>1, <2>4, <3>2 DEF IInv, TypeOK
  <2> QED BY <2>3, <2>4
<1>17. LiveFits'
  BY <1>1, <1>16 DEF LiveFits
<1> QED BY <1>2, <1>3, <1>15, <1>17

\* manifest.json in its place: the swap is done.
LEMMA ReplaceFits ==
    ASSUME IInv, TypeOK', ReplaceManifest
    PROVE  RunIsNew' /\ MovedFits' /\ LiveFits' /\ StagedFits' /\ WholeFits' /\ StatusFits'
<1> USE DEF staging
<1>1. /\ pc = "swap" /\ staged = {} /\ run \in Runs
      /\ UNCHANGED <<live, complete, failed, old, expired, stage, staged, makes, run, was>>
      /\ faults' = 0 => faults = 0
  BY DEF ReplaceManifest, IInv, RunIsNew, Sound, Faulty, TypeOK
<1>2. CASE UNCHANGED <<manifest, moved, torn>> /\ pc' = "undo"
  <2>1. RunIsNew' /\ WholeFits' /\ StatusFits'
    BY <1>1, <1>2 DEF IInv, RunIsNew, WholeFits, StatusFits, Before, After, Swapping
  <2>2. MovedFits' /\ LiveFits' /\ StagedFits'
    BY <1>1, <1>2 DEF IInv, MovedFits, LiveFits, StagedFits, Dn, Up, Replaced, Swapping
  <2> QED BY <2>1, <2>2
<1>3. CASE manifest' = run /\ moved' = << >> /\ pc' = "retire" /\ torn' = FALSE
  <2>1. \A p \in makes[run] : live[p] = run
    <3>1. makes[run] \subseteq Parts
      BY <1>1, FolderOK DEF IInv, TypeOK, Runs
    <3> QED BY <1>1, <3>1 DEF IInv, StagedFits, LiveFits
  <2>2. WholeFits'
    BY <1>1, <1>3, <2>1 DEF WholeFits, Before, After, Swapping
  <2>3. RunIsNew' /\ StatusFits'
    BY <1>1, <1>3, FolderOK DEF IInv, RunIsNew, StatusFits, Before, Swapping, Runs
  <2>4. MovedFits' /\ LiveFits' /\ StagedFits'
    BY <1>3 DEF MovedFits, LiveFits, StagedFits, Dn, Up, Swapping
  <2> QED BY <2>2, <2>3, <2>4
<1> QED BY <1>2, <1>3 DEF ReplaceManifest

\* No renames are listed.
LEMMA NoneListed ==
    ASSUME moved = << >>
    PROVE  \A p : ~Up(p) /\ ~Dn(p)
BY DEF Up, Dn

\* Everything is moved back.
LEMMA UndoneFits ==
    ASSUME IInv, TypeOK', Undone
    PROVE  RunIsNew' /\ MovedFits' /\ LiveFits' /\ StagedFits' /\ WholeFits' /\ StatusFits'
<1> USE DEF folder, staging
<1>1. /\ pc = "undo" /\ pc' = "fail" /\ moved = << >>
      /\ UNCHANGED <<live, manifest, complete, failed, old, expired, stage, staged, makes, run,
                     moved, was, torn, faults>>
  BY DEF Undone, Sound
<1>2. RunIsNew' /\ StatusFits'
  BY <1>1 DEF IInv, RunIsNew, StatusFits, Before, Swapping
<1>3. MovedFits' /\ LiveFits' /\ StagedFits'
  BY <1>1 DEF MovedFits, LiveFits, StagedFits, Dn, Up, Swapping
<1>4. makes[manifest] \subseteq Parts
  BY DEF IInv, TypeOK
<1>5. ~torn => \A p \in makes[manifest] : live[p] = manifest
  BY <1>1, <1>4, NoneListed DEF IInv, RunIsNew, LiveFits, WholeFits, Before, Swapping
<1>6. WholeFits'
  BY <1>1, <1>5 DEF WholeFits, Before, After, Swapping
<1> QED BY <1>2, <1>3, <1>6

\* The next package is staged.
LEMMA BuildFits ==
    ASSUME IInv, TypeOK', Build
    PROVE  RunIsNew' /\ MovedFits' /\ LiveFits' /\ StagedFits' /\ WholeFits' /\ StatusFits'
<1> USE DEF folder
<1>1. /\ pc = "build" /\ pc' \in {"swap", "fail"} /\ run \in Runs /\ moved = << >>
      /\ UNCHANGED <<live, manifest, complete, failed, old, expired, stage, run, moved, was, torn,
                     faults>>
  BY DEF Build, IInv, RunIsNew, MovedFits, Swapping, Sound
<1>2. manifest < run /\ manifest = was[2] /\ live = was[1] /\ manifest \in 0..MaxRuns
  BY <1>1 DEF IInv, RunIsNew, TypeOK, Before
<1>3. makes'[0] = makes[0] /\ makes'[manifest] = makes[manifest]
  <2>1. makes' = makes \/ \E S : makes' = [makes EXCEPT ![run] = S]
    BY DEF Build
  <2>2. makes \in [0..MaxRuns -> SUBSET Parts] /\ 0 \in 0..MaxRuns /\ run # 0
    BY <1>1, FolderOK DEF IInv, TypeOK, Runs
  <2>3. \A S : \A r \in 0..MaxRuns : r # run => [makes EXCEPT ![run] = S][r] = makes[r]
    BY <2>2
  <2>4. 0 # run /\ manifest # run
    BY <1>1, <1>2, <2>2, FolderOK DEF Runs
  <2> QED BY <1>2, <2>1, <2>2, <2>3, <2>4
<1>4. RunIsNew' /\ StatusFits'
  BY <1>1, <1>3 DEF IInv, RunIsNew, StatusFits, Before, Swapping
<1>5. MovedFits' /\ LiveFits'
  BY <1>1, <1>2, NoneListed DEF MovedFits, LiveFits, Dn, Up
<1>6. pc' = "swap" => staged' = makes'[run]
  BY <1>1, FolderOK DEF Build, IInv, TypeOK, Runs
<1>7. pc' = "swap" => makes'[run] \subseteq Parts
  BY <1>1, FolderOK DEF TypeOK, Runs
<1>8. \A p : ~Up(p)' /\ ~Dn(p)'
  BY <1>1 DEF Up, Dn
<1>10. StagedFits'
  BY <1>1, <1>6, <1>7, <1>8 DEF StagedFits
<1>9. WholeFits'
  BY <1>1, <1>2, <1>3 DEF IInv, WholeFits, Before, After, Swapping
<1> QED BY <1>4, <1>5, <1>9, <1>10

\* A run starts.
LEMMA StartFits ==
    ASSUME IInv, TypeOK', Start
    PROVE  RunIsNew' /\ MovedFits' /\ LiveFits' /\ StagedFits' /\ WholeFits' /\ StatusFits'
<1> USE DEF folder, staging
<1>1. /\ pc = "idle" /\ pc' = "open" /\ run' = run + 1 /\ run < MaxRuns /\ moved = << >>
      /\ was' = <<live, manifest, complete>>
      /\ UNCHANGED <<live, manifest, complete, failed, old, expired, stage, staged, makes,
                     moved, torn, faults>>
  BY DEF Start, IInv, MovedFits, Swapping, Sound
<1>2. run \in Nat /\ MaxRuns \in Nat
  BY FolderOK DEF IInv, TypeOK
<1>3. RunIsNew'
  BY <1>1, <1>2 DEF IInv, RunIsNew, TypeOK, Before, Swapping, Runs
<1>4. WholeFits'
  BY <1>1 DEF IInv, WholeFits, Before, After, Swapping
<1>5. StatusFits'
  BY <1>1 DEF IInv, StatusFits, Swapping
<1>6. MovedFits' /\ LiveFits' /\ StagedFits'
  BY <1>1 DEF MovedFits, LiveFits, StagedFits, Dn, Up, Swapping
<1> QED BY <1>3, <1>4, <1>5, <1>6

\* The process dies.
LEMMA CrashFits ==
    ASSUME IInv, TypeOK', Crash
    PROVE  RunIsNew' /\ MovedFits' /\ LiveFits' /\ StagedFits' /\ WholeFits' /\ StatusFits'
<1> USE DEF folder, staging
<1>1. /\ pc # "idle" /\ pc' = "idle" /\ moved' = << >>
      /\ UNCHANGED <<live, manifest, complete, failed, old, expired, stage, staged, makes, run,
                     was>>
      /\ faults' # 0
  BY DEF Crash, IInv, TypeOK, Faulty
<1>7. ~torn' => ~torn /\ (pc \in Swapping => moved = << >>)
  BY Zenon DEF Crash, Swapping
<1>2. RunIsNew' /\ StatusFits'
  BY <1>1 DEF IInv, RunIsNew, StatusFits, Before, Swapping
<1>3. MovedFits' /\ LiveFits' /\ StagedFits'
  BY <1>1 DEF MovedFits, LiveFits, StagedFits, Dn, Up, Swapping
<1>4. makes[manifest] \subseteq Parts
  BY DEF IInv, TypeOK
<1>5. ~torn' => \A p \in makes[manifest] : live[p] = manifest
  BY <1>1, <1>4, <1>7, NoneListed DEF IInv, RunIsNew, LiveFits, WholeFits, Before, Swapping
<1>6. WholeFits'
  BY <1>1, <1>5 DEF WholeFits, Before, After, Swapping
<1> QED BY <1>2, <1>3, <1>6

\* The leftovers are retired.
LEMMA RetireFits ==
    ASSUME IInv, TypeOK', Retire
    PROVE  RunIsNew' /\ MovedFits' /\ LiveFits' /\ StagedFits' /\ WholeFits' /\ StatusFits'
<1> USE DEF staging
<1>1. /\ pc = "retire" /\ pc' \in {"complete", "fail"} /\ moved = << >>
      /\ UNCHANGED <<manifest, complete, failed, expired, stage, staged, makes, run, moved, was,
                     torn>>
  BY DEF Retire, IInv, MovedFits, Swapping
<1>2. /\ faults' = 0 => faults = 0 /\ pc' = "complete"
  BY DEF Retire, Sound, Faulty, IInv, TypeOK
<1>3. RunIsNew'
  BY <1>1 DEF IInv, RunIsNew, Before, Swapping
<1>4. StatusFits'
  BY <1>1, <1>2 DEF IInv, StatusFits, Swapping
<1>5. MovedFits' /\ LiveFits' /\ StagedFits'
  BY <1>1 DEF MovedFits, LiveFits, StagedFits, Dn, Up, Swapping
<1>6. manifest = run /\ makes[run] \subseteq Parts /\ \A p \in makes[run] : live[p] = run
  BY <1>1 DEF IInv, TypeOK, WholeFits, After, Swapping
<1>7. \A p \in makes[run] : live'[p] = live[p]
  BY <1>6 DEF Retire
<1>8. WholeFits'
  BY <1>1, <1>6, <1>7 DEF IInv, WholeFits, Before, After, Swapping
<1> QED BY <1>3, <1>4, <1>5, <1>8

\* The other steps of a run.
LEMMA SidesFit ==
    ASSUME IInv, TypeOK', Open \/ MarkComplete \/ Finish \/ Fail
    PROVE  RunIsNew' /\ MovedFits' /\ LiveFits' /\ StagedFits' /\ WholeFits' /\ StatusFits'
<1> USE DEF folder, staging
<1>1. /\ pc \in {"open", "complete", "finish", "fail"} /\ moved' = << >>
      /\ UNCHANGED <<live, manifest, expired, makes, run, was, torn>>
      /\ pc = "open" => pc' \in {"build", "fail"}
      /\ pc # "open" => pc' \in {"finish", "fail", "idle"}
      /\ pc' = "finish" => pc = "complete"
  BY DEF Open, MarkComplete, Finish, Fail, IInv, MovedFits, Swapping
<1>2. RunIsNew'
  BY <1>1 DEF IInv, RunIsNew, Before, Swapping
<1>3. MovedFits' /\ LiveFits' /\ StagedFits'
  BY <1>1 DEF MovedFits, LiveFits, StagedFits, Dn, Up, Swapping
<1>4. pc' = "finish" => complete' /\ ~failed' /\ staged' = staged
  BY <1>1 DEF MarkComplete, Open, Finish, Fail
<1>5. WholeFits'
  BY <1>1, <1>4 DEF IInv, WholeFits, Before, After, Swapping
<1>6. CASE Open
  <2>1. (pc' = "build" => stage') /\ (faults' = 0 => faults = 0 /\ pc' = "build")
        /\ pc = "open" /\ UNCHANGED complete
    BY <1>6 DEF Open, Sound, Faulty, IInv, TypeOK
  <2>2. StatusFits'
    BY <1>1, <2>1 DEF IInv, StatusFits, Swapping
  <2> QED BY <1>2, <1>3, <1>5, <2>2
<1>7. CASE MarkComplete
  <2>1. pc = "complete" /\ pc' \in {"finish", "fail"}
    BY <1>7 DEF MarkComplete
  <2>4. (faults' = faults /\ complete' = TRUE /\ pc' = "finish") \/ Faulty("call")
    BY <1>7, Zenon DEF MarkComplete, Sound
  <2>5. faults' = 0 => faults = 0 /\ complete' /\ pc' = "finish"
    BY <2>4 DEF Faulty, IInv, TypeOK
  <2>3. manifest # 0
    BY <2>1, FolderOK DEF IInv, WholeFits, RunIsNew, After, Runs
  <2>2. StatusFits'
    BY <1>1, <2>1, <2>3, <2>5 DEF IInv, StatusFits, Swapping
  <2> QED BY <1>2, <1>3, <1>5, <2>2
<1>8. CASE Finish
  <2>1. /\ pc = "finish" /\ pc' = "idle" /\ UNCHANGED complete
        /\ faults' = 0 => faults = 0 /\ ~stage'
    BY <1>8 DEF Finish, Sound, Faulty, IInv, TypeOK
  <2>2. StatusFits'
    BY <1>1, <2>1 DEF IInv, StatusFits, WholeFits, Swapping
  <2> QED BY <1>2, <1>3, <1>5, <2>2
<1>9. CASE Fail
  <2>1. /\ pc = "fail" /\ pc' = "idle" /\ UNCHANGED complete
        /\ faults' = 0 => faults = 0 /\ ~stage' /\ failed'
    BY <1>9 DEF Fail, WriteFailed, Sound, Faulty, IInv, TypeOK
  <2>2. StatusFits'
    BY <1>1, <2>1 DEF IInv, StatusFits, Swapping
  <2> QED BY <1>2, <1>3, <1>5, <2>2
<1> QED BY <1>6, <1>7, <1>8, <1>9

\* The steps beside a run.
LEMMA BesideFits ==
    ASSUME IInv, TypeOK',
           \/ SweepReplaced \/ SweepStaging \/ Age \/ UNCHANGED vars
           \/ \E r \in Runs : GraceEnds(r) \/ Timer(r)
    PROVE  RunIsNew' /\ MovedFits' /\ LiveFits' /\ StagedFits' /\ WholeFits' /\ StatusFits'
<1> USE DEF folder, staging
<1>1. /\ UNCHANGED <<live, manifest, complete, failed, makes, pc, run, moved, was, torn>>
      /\ stage' => stage
      /\ UNCHANGED <<stage, staged>> \/ (pc = "idle" /\ staged' = {})
      /\ faults' = 0 => faults = 0
  <2>1. CASE SweepReplaced \/ SweepStaging \/ Age \/ UNCHANGED vars
    BY <2>1 DEF SweepReplaced, SweepStaging, Age, vars
  <2>2. CASE \E r \in Runs : GraceEnds(r) \/ Timer(r)
    BY <2>2 DEF GraceEnds, Timer, Sound, Faulty, IInv, TypeOK
  <2> QED BY <2>1, <2>2
<1>2. expired' \subseteq 1..run /\ (pc # "idle" => run \notin expired')
  <2>1. CASE UNCHANGED expired
    BY <2>1 DEF IInv, RunIsNew
  <2>2. CASE \E r \in Runs : GraceEnds(r)
    BY <2>2, FolderOK DEF GraceEnds, IInv, RunIsNew, TypeOK, Runs
  <2> QED BY <2>1, <2>2 DEF SweepReplaced, SweepStaging, Age, vars, Timer
<1>3. \A e \in old \ old' : e.by \in expired
  BY DEF SweepReplaced, SweepStaging, Age, vars, GraceEnds, Timer, InGrace
<1>4. RunIsNew'
  BY <1>1, <1>2 DEF IInv, RunIsNew, Before, Swapping
<1>5. \A p : (Up(p)' <=> Up(p)) /\ (Dn(p)' <=> Dn(p)) /\ Replaced(p)' = Replaced(p)
  BY <1>1 DEF Up, Dn, Replaced
<1>6. \A p \in Parts : Dn(p) => Replaced(p) \in old'
  <2>1. pc = "idle" => \A p : ~Dn(p)
    BY NoneListed DEF IInv, MovedFits, Swapping
  <2>2. \A p : Replaced(p).by = run
    BY DEF Replaced
  <2> QED BY <1>3, <2>1, <2>2 DEF IInv, MovedFits, RunIsNew
<1>7. MovedFits'
  BY <1>1, <1>5, <1>6 DEF IInv, MovedFits
<1>8. LiveFits'
  BY <1>1, <1>5 DEF IInv, LiveFits
<1>9. StagedFits'
  BY <1>1, <1>5 DEF IInv, StagedFits, Turn
<1>10. WholeFits' /\ StatusFits'
  BY <1>1 DEF IInv, WholeFits, StatusFits, Before, After, Swapping
<1> QED BY <1>4, <1>7, <1>8, <1>9, <1>10

-----------------------------------------------------------------------------
(* Theorems *)

LEMMA InitIsFine ==
    ASSUME Init
    PROVE  IInv
<1>1. TypeOK
  <2>1. << >> \in Seq(Moves)
    BY EmptySeq
  <2>2. 0 \in 0..MaxRuns /\ 0 \in 0..MaxFaults
    BY FolderOK
  <2>3. live \in [Parts -> 0..MaxRuns] /\ makes \in [0..MaxRuns -> SUBSET Parts]
    BY <2>2 DEF Init
  <2> QED BY <2>1, <2>2, <2>3 DEF Init, TypeOK, Places
<1>2. RunIsNew /\ MovedFits /\ LiveFits /\ StagedFits /\ WholeFits /\ StatusFits
  BY FolderOK DEF Init, RunIsNew, MovedFits, LiveFits, StagedFits, WholeFits, StatusFits, Dn, Up,
                  Before, After, Swapping
<1> QED BY <1>1, <1>2 DEF IInv

LEMMA StepIsFine ==
    ASSUME IInv, [Next]_vars
    PROVE  IInv'
<1>1. TypeOK'
  BY Typed DEF IInv
<1>2. CASE Displace \/ MoveUp \/ ReplaceManifest \/ Undo \/ Undone
  BY <1>1, <1>2, DisplaceFits, MoveUpFits, ReplaceFits, UndoFits, UndoneFits DEF IInv
<1>3. CASE Start \/ Build \/ Retire \/ Crash
  BY <1>1, <1>3, StartFits, BuildFits, RetireFits, CrashFits DEF IInv
<1>4. CASE Open \/ MarkComplete \/ Finish \/ Fail
  BY <1>1, <1>4, SidesFit DEF IInv
<1>5. CASE \/ SweepReplaced \/ SweepStaging \/ Age \/ UNCHANGED vars
           \/ \E r \in Runs : GraceEnds(r) \/ Timer(r)
  BY <1>1, <1>5, BesideFits DEF IInv
<1> QED BY <1>2, <1>3, <1>4, <1>5 DEF Next, Run

\* The folder, the list of the swap and what they say of each other, whatever
\* fails and wherever the process dies (package_item, _swap_in, _remove_after,
\* sweep_leftovers).
THEOREM Invariance == Spec => []IInv
BY InitIsFine, StepIsFine, PTL DEF Spec

\* At rest the folder is one package, whole, and what is said of it is so.
THEOREM RestIsWhole == Spec => []WholeAtRest
<1>1. IInv => WholeAtRest
  <2> SUFFICES ASSUME IInv PROVE WholeAtRest
    OBVIOUS
  <2>1. /\ Status = "complete" => complete
        /\ Status \in {"packaging", "failed", "unknown"} => ~complete
        /\ Status = "packaging" => stage
        /\ Status = "unknown" => ~failed /\ run # 0
    BY DEF Status
  <2>2. pc = "idle" /\ Status \in {"packaging", "unknown"} => faults > 0
    BY <2>1 DEF IInv, StatusFits, TypeOK
  <2>3. Status \in {"packaging", "failed", "unknown"} /\ manifest # 0 =>
          faults > 0 \/ pc \in {"retire", "complete"}
    BY <2>1 DEF IInv, StatusFits, TypeOK
  <2>4. Status = "complete" => manifest # 0
    BY <2>1 DEF IInv, StatusFits
  <2>5. complete /\ pc = "idle" /\ ~torn => \A p \in makes[manifest] : live[p] = manifest
    BY DEF IInv, WholeFits, Swapping
  <2>6. pc = "finish" =>
          /\ manifest = run /\ complete /\ ~failed
          /\ \A p \in makes[run] : live[p] = run
    BY DEF IInv, WholeFits, After, Swapping
  <2> QED BY <2>2, <2>3, <2>4, <2>5, <2>6 DEF WholeAtRest
<1> QED BY <1>1, Invariance, PTL

\* What a reader misses is what was moved out last.
LEMMA MissingIsOut ==
    ASSUME IInv, ~torn, NEW p \in Missing
    PROVE  /\ pc \in Swapping /\ p \in Parts /\ Dn(p) /\ ~Up(p)
           /\ was[1][p] = manifest
<1>1. makes[manifest] \subseteq Parts
  BY DEF IInv, TypeOK
<1>2. p \in Parts /\ p \in makes[manifest] /\ live[p] = 0
  BY <1>1 DEF Missing
<1>3. manifest # 0
  BY <1>2 DEF IInv, RunIsNew
<1>4. pc \in Swapping
  BY <1>2, <1>3 DEF IInv, WholeFits
<1>5. was[1][p] = manifest /\ run # 0
  BY <1>2, <1>4, FolderOK DEF IInv, WholeFits, RunIsNew, Before, Swapping, Runs
<1>6. Dn(p) /\ ~Up(p)
  BY <1>2, <1>3, <1>4, <1>5 DEF IInv, LiveFits, Swapping
<1> QED BY <1>2, <1>4, <1>5, <1>6

\* A reader misses one entry at most, and that one has its .old name.
THEOREM ReaderMissesOne == Spec => []OneGap
<1>1. IInv => OneGap
  <2> SUFFICES ASSUME IInv, ~torn
               PROVE  /\ Cardinality(Missing) <= 1
                      /\ \A p \in Missing : \E e \in old : e.part = p /\ e.of = manifest
    BY DEF OneGap
  <2>1. \A p \in Missing : p = moved[Len(moved)].part
    BY MissingIsOut, OutIsLast DEF IInv
  <2>2. CASE Missing = {}
    BY <2>2, FS_EmptySet
  <2>3. CASE Missing # {}
    <3>1. PICK p : Missing = {p}
      BY <2>1, <2>3
    <3>2. Cardinality(Missing) = 1
      BY <3>1, FS_Singleton
    <3>3. Replaced(p) \in old /\ Replaced(p).part = p /\ Replaced(p).of = manifest
      BY <3>1, MissingIsOut DEF IInv, MovedFits, Replaced
    <3> QED BY <3>1, <3>2, <3>3
  <2> QED BY <2>2, <2>3
<1> QED BY <1>1, Invariance, PTL

\* What was replaced stays for its grace period, or goes back.
THEOREM GraceIsHonoured == Spec => GraceHonoured
<1>1. IInv /\ [Next]_vars =>
        [\A e \in old \ old' : e.by \in expired \/ live'[e.part] = e.of]_vars
  <2> SUFFICES ASSUME IInv, Next, NEW e \in old, e \notin old'
               PROVE  e.by \in expired \/ live'[e.part] = e.of
    OBVIOUS
  <2> USE DEF folder, staging
  <2>1. CASE Undo
    <3> DEFINE m == Last(moved)
               was1 == was[1][m.part]
    <3>1. ~m.up /\ live' = [live EXCEPT ![m.part] = was1]
          /\ e = [part |-> m.part, of |-> was1, by |-> run]
      BY <2>1 DEF Undo
    <3>2. e \in Old
      BY DEF IInv, TypeOK
    <3>3. m.part \in Parts
      BY <3>1, <3>2 DEF Old
    <3> QED BY <3>1, <3>3 DEF IInv, TypeOK
  <2>2. CASE Start \/ Open \/ Build \/ Displace \/ MoveUp \/ ReplaceManifest \/ Undone
    BY <2>2 DEF Start, Open, InGrace, Build, Displace, MoveUp, ReplaceManifest, Undone
  <2>3. CASE Retire \/ MarkComplete \/ Finish \/ Fail \/ Crash
    BY <2>3 DEF Retire, MarkComplete, Finish, Fail, Crash
  <2>4. CASE SweepReplaced \/ SweepStaging \/ Age \/ \E r \in Runs : GraceEnds(r) \/ Timer(r)
    BY <2>4 DEF SweepReplaced, InGrace, SweepStaging, Age, GraceEnds, Timer
  <2> QED BY <2>1, <2>2, <2>3, <2>4 DEF Next, Run
<1> QED BY <1>1, Invariance, PTL DEF Spec, GraceHonoured
=============================================================================
