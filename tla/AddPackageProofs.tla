---------------------------- MODULE AddPackageProofs ----------------------------
(***************************************************************************)
(* Proofs about AddPackage, for any subtitles, failures and races, and any *)
(* number of builds and faults.                                            *)
(***************************************************************************)
EXTENDS AddPackage, SequenceTheorems, TLAPS

\* A sequence without its last element, and that element.
LEMMA FrontLast ==
    ASSUME NEW S, NEW s \in Seq(S), s # << >>
    PROVE  /\ Front(s) \in Seq(S) /\ Len(Front(s)) = Len(s) - 1 /\ Len(s) \in Nat \ {0}
           /\ \A k \in 1..(Len(s) - 1) : Front(s)[k] = s[k]
           /\ Last(s) = s[Len(s)] /\ Last(s) \in S
<1>1. Len(s) \in Nat \ {0}
  BY EmptySeq
<1>2. \A i \in 1..(Len(s) - 1) : s[i] \in S
  BY <1>1, ElementOfSeq
<1> DEFINE n == Len(s) - 1
<1>3. n \in Int /\ n = Len(s) - 1
  BY <1>1
<1>4. \A i \in 1..n : s[i] \in S
  BY <1>2
<1> HIDE DEF n
<1>5. /\ SubSeq(s, 1, n) \in Seq(S)
      /\ Len(SubSeq(s, 1, n)) = IF 1 <= n THEN n - 1 + 1 ELSE 0
      /\ \A i \in 1..(n - 1 + 1) : SubSeq(s, 1, n)[i] = s[1 + i - 1]
  BY <1>3, <1>4, SubSeqProperties
<1>6. /\ SubSeq(s, 1, n) \in Seq(S) /\ Len(SubSeq(s, 1, n)) = n
      /\ \A i \in 1..n : SubSeq(s, 1, n)[i] = s[i]
  BY <1>1, <1>3, <1>5
<1>7. Front(s) = SubSeq(s, 1, n) /\ Last(s) = s[Len(s)]
  BY <1>3 DEF Front, Last
<1>8. s[Len(s)] \in S
  BY <1>1, ElementOfSeq
<1> QED BY <1>1, <1>3, <1>8, <1>6, <1>7

-----------------------------------------------------------------------------
(* The inductive invariant *)

\* The package that was built last is the only one there is anything of; an
\* entry of it is in one of the two folders.
One ==
    \A e \in Entries :
        /\ here[e] \in {0, builds} /\ staged[e] \in {0, builds}
        /\ here[e] = 0 \/ staged[e] = 0
        /\ here[e] # 0 \/ staged[e] # 0 => e \in makes[builds]

\* The steps that rename.
Renaming == MovePart \/ MoveSubs \/ MoveSubtitle \/ Undo

Moving == {"record", "move", "check", "undo"}

\* All of it is, while it is moved, and as long as a part has been and staging stays.
Kept ==
    pc \in Moving \/ (here # Nothing /\ stage) =>
        stage /\ builds # 0 /\ \A e \in makes[builds] : here[e] # 0 \/ staged[e] # 0

\* What the run knows at its place: a build starts with no package in either
\* folder; what is still to be moved is what is staged, and .complete is last;
\* what is handed over, and what the catalog took, is whole.
RunKnows ==
    /\ pc \in {"open", "build"} => here = Nothing
    /\ pc = "build" => stage /\ ~stagedSubs /\ staged = Nothing
    /\ pc = "record" => here["complete"] = 0
    /\ pc \in {"record", "move"} =>
        PartsOf(staged) \subseteq names /\ names \ {"subs"} \subseteq PartsOf(staged)
    /\ pc = "move" /\ here["complete"] # 0 => names = {}
    /\ pc \in {"report", "finish"} => Whole
    /\ taken => Whole /\ pc \in {"idle", "look", "report", "finish"}

\* What is to be undone is not staged, and of subs/ it was moved whole or file
\* by file.
ListFits ==
    \A k \in 1..Len(moved) :
        /\ moved[k] \in Entries => staged[moved[k]] = 0
        /\ moved[k] \in SubFiles => hereSubs
        /\ moved[k] = "subs" => /\ "subs" \notin names
                                /\ \A s \in SubFiles : staged[s] = 0
                                /\ \A j \in 1..Len(moved) : moved[j] \notin SubFiles

\* It is listed once.
ListedOnce ==
    \A j, k \in 1..Len(moved) : j # k /\ moved[j] = moved[k] => moved[j] \in Attachable

\* .complete goes back first.
CompleteLast ==
    pc \in {"move", "check", "undo"} /\ here["complete"] # 0 /\ ~torn =>
        moved # << >> /\ Last(moved) = "complete"

MovedFits ==
    /\ pc \notin {"move", "check", "undo", "report"} => moved = << >>
    /\ ListFits /\ ListedOnce /\ CompleteLast

IInv == TypeOK /\ One /\ Kept /\ RunKnows /\ MovedFits /\ CompleteIsWhole

-----------------------------------------------------------------------------
(* Operators *)

\* .complete's turn comes last.
LEMMA CompleteIsLast ==
    ASSUME names \subseteq Names, Turn("complete")
    PROVE  names = {"complete"}
BY DEF Names, Order, Turn

\* A folder that no part is in holds nothing of a package.
LEMMA NoPartsNothing ==
    ASSUME NEW folder \in [Entries -> Nat]
    PROVE  PartsOf(folder) = {} <=> folder = Nothing
<1>1. ASSUME folder = Nothing PROVE PartsOf(folder) = {}
  BY <1>1 DEF PartsOf, Nothing, Entries
<1>2. ASSUME PartsOf(folder) = {} PROVE folder = Nothing
  <2>1. \A e \in Entries : folder[e] = 0
    BY <1>2, AddOK DEF PartsOf, Entries, Chain
  <2> QED BY <2>1 DEF Nothing
<1> QED BY <1>1, <1>2

-----------------------------------------------------------------------------
(* Types *)

\* What a step may do to the counters.
LEMMA Counts ==
    ASSUME TypeOK, [Next]_vars
    PROVE  /\ builds' \in 0..MaxBuilds /\ faults' \in 0..MaxFaults
           /\ pc # "build" => builds' = builds /\ makes' = makes
           /\ taken # taken' => pc = "report"
<1> USE AddOK DEF TypeOK, Sound, Faulty
<1>1. CASE Look \/ Open \/ Build
  BY <1>1 DEF Look, Open, Build, staging, made, version
<1>2. CASE RecordUnchanged \/ MovePart \/ MoveSubs
  BY <1>2 DEF RecordUnchanged, MovePart, MoveSubs, made
<1>6. CASE MoveSubtitle \/ Moved \/ Check
  BY <1>6 DEF MoveSubtitle, Moved, Check, made
<1>3. CASE Undo
  BY <1>3 DEF Undo, made
<1>7. CASE Undone
  BY <1>7 DEF Undone, made
<1>9. CASE Fail
  <2>1. UNCHANGED <<makes, builds, taken>>
    BY <1>9 DEF Fail, made
  <2>2. Sound \/ Faulty("call")
    BY <1>9, Zenon DEF Fail
  <2> QED BY <2>1, <2>2
<1>8. CASE Report \/ Finish
  <2>1. UNCHANGED <<makes, builds>>
    BY <1>8 DEF Report, Finish, made
  <2>2. Sound \/ Faulty("call")
    BY <1>8, Zenon DEF Report, Finish
  <2>3. taken # taken' => pc = "report"
    BY <1>8, Zenon DEF Report, Finish
  <2> QED BY <2>1, <2>2, <2>3
<1>4. CASE StartRun \/ Crash \/ Rewrite \/ Age \/ Sweep \/ UNCHANGED vars
  BY <1>4 DEF StartRun, Crash, Rewrite, Age, Sweep, vars, made
<1>5. CASE \E a \in Attachable : Attach(a)
  BY <1>5 DEF Attach, made
<1> QED BY <1>1, <1>2, <1>3, <1>4, <1>5, <1>6, <1>7, <1>8, <1>9 DEF Next, Step

\* A step keeps the types of what the run keeps for itself.
LEMMA RunTyped ==
    ASSUME TypeOK, [Next]_vars
    PROVE  /\ pc' \in Places /\ completing' \in BOOLEAN /\ names' \subseteq Names
           /\ moved' \in Seq(Names \cup Entries \cup Attachable)
           /\ current' \in BOOLEAN /\ taken' \in BOOLEAN /\ torn' \in BOOLEAN
<1> DEFINE S == Names \cup Entries \cup Attachable
<1>0. \A s \in Seq(S), x \in S : Append(s, x) \in Seq(S)
  BY AppendProperties
<1>00. << >> \in Seq(S)
  BY EmptySeq
<1>000. moved # << >> => Front(moved) \in Seq(S)
  BY FrontLast DEF TypeOK
<1>m. moved \in Seq(S)
  BY DEF TypeOK
<1>p. \A f : PartsOf(f) \subseteq Names
  BY AddOK DEF PartsOf, Names, Order, Entries, Chain
<1>n. "subs" \in Names
  BY DEF Names, Order
<1>e. SubFiles \subseteq Entries
  BY DEF Entries
<1> HIDE DEF S
<1> USE AddOK DEF TypeOK, Places, run, made, version, staging
<1>1. CASE Look \/ Open \/ Build
  BY <1>1, <1>p DEF Look, Open, Build, S
<1>2. CASE RecordUnchanged \/ Moved \/ Check \/ Undone \/ Fail \/ Finish
  BY <1>2 DEF RecordUnchanged, Moved, Check, Undone, Fail, Finish
<1>3. CASE MovePart \/ MoveSubs \/ MoveSubtitle
  <2>1. moved' = moved \/ \E x \in S : moved' = Append(moved, x)
    BY <1>3, <1>n, <1>e DEF MovePart, MoveSubs, MoveSubtitle, S
  <2>2. moved' \in Seq(S)
    BY ONLY <2>1, <1>0, <1>m, Zenon
  <2>3. names' \subseteq names /\ pc' \in {"move", "undo"}
    BY <1>3 DEF MovePart, MoveSubs, MoveSubtitle
  <2>4. UNCHANGED <<completing, current, taken, torn>>
    BY <1>3 DEF MovePart, MoveSubs, MoveSubtitle
  <2> QED BY <2>2, <2>3, <2>4 DEF S
<1>4. CASE Undo
  BY <1>4, <1>000 DEF Undo, S
<1>5. CASE Report \/ Crash
  BY <1>5, <1>00 DEF Report, Crash, S
<1>6. CASE StartRun \/ Rewrite \/ Age \/ Sweep \/ UNCHANGED vars
  BY <1>6 DEF StartRun, Rewrite, Age, Sweep, vars
<1>7. CASE \E a \in Attachable : Attach(a)
  BY <1>7 DEF Attach
<1> QED BY <1>1, <1>2, <1>3, <1>4, <1>5, <1>6, <1>7 DEF Next, Step

\* ... of the two folders,
LEMMA FoldersTyped ==
    ASSUME TypeOK, [Next]_vars
    PROVE  /\ here' \in [Entries -> 0..MaxBuilds] /\ staged' \in [Entries -> 0..MaxBuilds]
           /\ makes' \in [1..MaxBuilds -> SUBSET Entries]
<1> DEFINE T == [Entries -> 0..MaxBuilds]
<1>a. here \in T /\ staged \in T /\ Nothing \in T
  BY AddOK DEF TypeOK, Nothing
<1>b. \A f, g \in T : WithSubs(f, g) \in T /\ NoSubs(f) \in T
  BY AddOK DEF WithSubs, NoSubs, Nothing
<1>d. SubFiles \subseteq Entries /\ Names \ {"subs"} \subseteq Entries
  BY DEF Entries, Names, Order, Chain
<1>m. makes \in [1..MaxBuilds -> SUBSET Entries] /\ builds \in 0..MaxBuilds
  BY DEF TypeOK
<1> USE DEF version, staging, made
<1>1. CASE Build
  <2>1. makes' \in [1..MaxBuilds -> SUBSET Entries]
    BY <1>1, <1>m, AddOK DEF Build
  <2>2. staged' \in T
    BY <1>1, <1>m, <1>a, AddOK DEF Build
  <2> QED BY <1>1, <1>a, <2>1, <2>2 DEF Build
<1> HIDE DEF T
<1>2. CASE Look \/ Open \/ RecordUnchanged \/ Moved \/ Check
  BY <1>2, <1>a, <1>m DEF Look, Open, RecordUnchanged, Moved, Check, Gone, T
<1>3. CASE MovePart
  <2>1. UNCHANGED <<makes, builds>>
    BY <1>3 DEF MovePart
  <2>2. \/ \E p \in Entries : /\ here' = [here EXCEPT ![p] = staged[p]]
                            /\ staged' = [staged EXCEPT ![p] = 0]
        \/ UNCHANGED <<here, staged>>
    BY <1>3, <1>d DEF MovePart
  <2>3. CASE UNCHANGED <<here, staged>>
    BY <2>1, <2>3, <1>a, <1>m DEF T
  <2>4. ASSUME NEW p \in Entries,
               here' = [here EXCEPT ![p] = staged[p]], staged' = [staged EXCEPT ![p] = 0]
        PROVE  here' \in T /\ staged' \in T
    BY <2>4, <1>a, AddOK DEF T
  <2> QED BY <2>1, <2>2, <2>3, <2>4, <1>m DEF T
<1>4. CASE MoveSubs
  <2>1. UNCHANGED <<makes, builds>>
    BY <1>4 DEF MoveSubs
  <2>2. \/ here' = WithSubs(here, staged) /\ staged' = NoSubs(staged)
        \/ UNCHANGED <<here, staged>>
    BY <1>4 DEF MoveSubs
  <2>3. CASE here' = WithSubs(here, staged) /\ staged' = NoSubs(staged)
    BY <2>1, <2>3, <1>a, <1>b, <1>m DEF T
  <2>4. CASE UNCHANGED <<here, staged>>
    BY <2>1, <2>4, <1>a, <1>m DEF T
  <2> QED BY <2>2, <2>3, <2>4
<1>9. CASE MoveSubtitle
  <2>1. UNCHANGED <<makes, builds>>
    BY <1>9 DEF MoveSubtitle
  <2>2. \/ \E s \in Entries : /\ here' = [here EXCEPT ![s] = staged[s]]
                            /\ staged' = [staged EXCEPT ![s] = 0]
        \/ UNCHANGED <<here, staged>>
    BY <1>9, <1>d DEF MoveSubtitle
  <2>3. CASE UNCHANGED <<here, staged>>
    BY <2>1, <2>3, <1>a, <1>m DEF T
  <2>4. ASSUME NEW s \in Entries,
               here' = [here EXCEPT ![s] = staged[s]], staged' = [staged EXCEPT ![s] = 0]
        PROVE  here' \in T /\ staged' \in T
    BY <2>4, <1>a, AddOK DEF T
  <2> QED BY <2>1, <2>2, <2>3, <2>4, <1>m DEF T
<1>5. CASE Undo
  <2>1. UNCHANGED <<makes, builds>>
    BY <1>5 DEF Undo
  <2>2. \/ staged' = WithSubs(staged, here) /\ here' = NoSubs(here)
        \/ \E m \in Entries : /\ staged' = [staged EXCEPT ![m] = here[m]]
                            /\ here' = [here EXCEPT ![m] = 0]
        \/ UNCHANGED <<here, staged>>
    BY <1>5 DEF Undo
  <2>3. CASE staged' = WithSubs(staged, here) /\ here' = NoSubs(here)
    BY <2>1, <2>3, <1>a, <1>b, <1>m DEF T
  <2>4. CASE UNCHANGED <<here, staged>>
    BY <2>1, <2>4, <1>a, <1>m DEF T
  <2>5. ASSUME NEW m \in Entries,
               staged' = [staged EXCEPT ![m] = here[m]], here' = [here EXCEPT ![m] = 0]
        PROVE  here' \in T /\ staged' \in T
    BY <2>5, <1>a, AddOK DEF T
  <2> QED BY <2>1, <2>2, <2>3, <2>4, <2>5, <1>m DEF T
<1>6. CASE Undone \/ Fail \/ Report \/ Finish
  BY <1>6, <1>a, <1>m DEF Undone, Fail, Report, Finish, Gone, T
<1>7. CASE StartRun \/ Crash \/ Rewrite \/ Age \/ Sweep \/ UNCHANGED vars
  BY <1>7, <1>a, <1>m DEF StartRun, Crash, Rewrite, Age, Sweep, Gone, vars, T
<1>8. CASE \E a \in Attachable : Attach(a)
  BY <1>8, <1>a, <1>m DEF Attach, T
<1> QED BY <1>1, <1>2, <1>3, <1>4, <1>5, <1>6, <1>7, <1>8, <1>9 DEF Next, Step

\* ... of where the attached subtitles are,
LEMMA AttachedTyped ==
    ASSUME TypeOK, [Next]_vars
    PROVE  attached' \in [Attachable -> {"no", "here", "staged", "gone"}]
<1> USE AddOK DEF TypeOK, version, staging, made, run
<1>1. CASE Look \/ Open \/ RecordUnchanged \/ Moved \/ Check
  BY <1>1 DEF Look, Open, RecordUnchanged, Moved, Check, Gone, Carried
<1>2. CASE Build
  BY <1>2 DEF Build, Carried
<1>3. CASE MovePart
  BY <1>3 DEF MovePart, Carried
<1>4. CASE MoveSubs \/ MoveSubtitle
  BY <1>4 DEF MoveSubs, MoveSubtitle, Carried
<1>5. CASE Undo
  BY <1>5 DEF Undo, Carried
<1>6. CASE Undone \/ Fail \/ Report \/ Finish
  BY <1>6 DEF Undone, Fail, Report, Finish, Gone, Carried
<1>7. CASE StartRun \/ Crash \/ Rewrite \/ Age \/ Sweep \/ UNCHANGED vars
  BY <1>7 DEF StartRun, Crash, Rewrite, Age, Sweep, Gone, vars, Carried
<1>8. CASE \E a \in Attachable : Attach(a)
  BY <1>8 DEF Attach
<1> QED BY <1>1, <1>2, <1>3, <1>4, <1>5, <1>6, <1>7, <1>8 DEF Next, Step

\* ... and of what is there of them.
LEMMA FlagsTyped ==
    ASSUME TypeOK, [Next]_vars
    PROVE  /\ hereSubs' \in BOOLEAN /\ stagedSubs' \in BOOLEAN
           /\ stage' \in BOOLEAN /\ aged' \in BOOLEAN
<1> USE AddOK DEF TypeOK, version, staging, made, run
<1>1. CASE Look \/ Open \/ RecordUnchanged \/ Moved \/ Check
  BY <1>1 DEF Look, Open, RecordUnchanged, Moved, Check, Gone
<1>2. CASE Build
  BY <1>2 DEF Build
<1>3. CASE MovePart
  BY <1>3 DEF MovePart
<1>4. CASE MoveSubs \/ MoveSubtitle
  BY <1>4 DEF MoveSubs, MoveSubtitle
<1>5. CASE Undo
  BY <1>5 DEF Undo
<1>6. CASE Undone \/ Fail \/ Report \/ Finish
  BY <1>6 DEF Undone, Fail, Report, Finish, Gone
<1>7. CASE StartRun \/ Crash \/ Rewrite \/ Age \/ Sweep \/ UNCHANGED vars
  BY <1>7 DEF StartRun, Crash, Rewrite, Age, Sweep, Gone, vars
<1>8. CASE \E a \in Attachable : Attach(a)
  BY <1>8 DEF Attach
<1> QED BY <1>1, <1>2, <1>3, <1>4, <1>5, <1>6, <1>7, <1>8 DEF Next, Step

\* A rename takes an entry from one folder to where the other has none.
LEMMA Renames ==
    ASSUME IInv, Renaming
    PROVE  /\ UNCHANGED <<builds, makes, stage>>
           /\ pc \in {"move", "undo"} /\ pc' \in {"move", "undo"}
           /\ \A e \in Entries :
                \/ here'[e] = here[e] /\ staged'[e] = staged[e]
                \/ here'[e] = staged[e] /\ staged'[e] = 0 /\ here[e] = 0
                \/ staged'[e] = here[e] /\ here'[e] = 0 /\ staged[e] = 0
<1> DEFINE S == Names \cup Entries \cup Attachable
<1>m. moved \in Seq(S)
  BY DEF IInv, TypeOK
<1> HIDE DEF S
<1>l. moved # << >> => Len(moved) \in Nat \ {0} /\ Last(moved) = moved[Len(moved)]
  BY <1>m, FrontLast, Zenon
<1>0. moved # << >> => Len(moved) \in 1..Len(moved) /\ Last(moved) = moved[Len(moved)]
  BY <1>l
<1> USE AddOK DEF IInv, TypeOK, MovedFits, ListFits, Entries, Chain, Names, Order, version,
        staging, made, Nothing
<1>1. CASE MovePart
  BY <1>1 DEF MovePart
<1>2. CASE MoveSubs
  BY <1>2 DEF MoveSubs, WithSubs, NoSubs, Nothing
<1>3. CASE MoveSubtitle
  BY <1>3 DEF MoveSubtitle
<1>4. CASE Undo
  BY <1>4, <1>0 DEF Undo, WithSubs, NoSubs, Nothing
<1> QED BY <1>1, <1>2, <1>3, <1>4 DEF Renaming

\* A package's subtitles are in a subs/ that is there,
LEMMA SubsThere ==
    ASSUME IInv, [Next]_vars
    PROVE  \A s \in SubFiles : (here'[s] # 0 => hereSubs') /\ (staged'[s] # 0 => stagedSubs')
<1>s. \A s \in SubFiles : s \in Entries /\ s \notin Names
  BY AddOK DEF Entries, Names, Order, Chain
<1> USE DEF IInv, TypeOK, RunKnows, version, staging, made, run, Nothing
<1>1. CASE Look
  BY <1>1, <1>s DEF Look
<1>2. CASE Open
  BY <1>2, <1>s DEF Open, Gone
<1>3. CASE RecordUnchanged \/ Moved \/ Check
  BY <1>3, <1>s DEF RecordUnchanged, Moved, Check
<1>4. CASE Build
  BY <1>4, <1>s DEF Build
<1>5. CASE MovePart
  BY <1>5, <1>s DEF MovePart
<1>6. CASE MoveSubs
  BY <1>6, <1>s DEF MoveSubs, WithSubs, NoSubs, Nothing
<1>7. CASE MoveSubtitle
  BY <1>7, <1>s DEF MoveSubtitle
<1>8. CASE Undo
  BY <1>8, <1>s DEF Undo, WithSubs, NoSubs, Nothing
<1>9. CASE Undone
  BY <1>9, <1>s DEF Undone
<1>10. CASE Fail
  BY <1>10, <1>s DEF Fail, Gone
<1>11. CASE Report
  BY <1>11, <1>s DEF Report
<1>12. CASE Finish
  BY <1>12, <1>s DEF Finish, Gone
<1>13. CASE StartRun \/ Crash \/ Rewrite \/ Age \/ UNCHANGED vars
  BY <1>13, <1>s DEF StartRun, Crash, Rewrite, Age, vars
<1>14. CASE Sweep
  BY <1>14, <1>s DEF Sweep, Gone
<1>15. CASE \E a \in Attachable : Attach(a)
  BY <1>15, <1>s DEF Attach
<1> QED BY <1>1, <1>2, <1>3, <1>4, <1>5, <1>6, <1>7, <1>8, <1>9, <1>10, <1>11, <1>12, <1>13,
    <1>14, <1>15 DEF Next, Step, Renaming

\* ... so are the attached ones,
LEMMA AttachedThere ==
    ASSUME IInv, [Next]_vars
    PROVE  \A a \in Attachable : /\ attached'[a] = "here" => hereSubs'
                                 /\ attached'[a] = "staged" => stagedSubs'
<1> USE AddOK DEF IInv, TypeOK, RunKnows, Kept, Moving, Entries, Chain, Names, Order, version,
        staging, made, run, Nothing, Carried
<1>1. CASE Look
  BY <1>1 DEF Look
<1>2. CASE Open
  BY <1>2 DEF Open, Gone
<1>3. CASE RecordUnchanged \/ Moved \/ Check
  BY <1>3 DEF RecordUnchanged, Moved, Check
<1>4. CASE Build
  BY <1>4 DEF Build
<1>5. CASE MovePart
  BY <1>5 DEF MovePart
<1>6. CASE MoveSubs
  BY <1>6 DEF MoveSubs, WithSubs, NoSubs, Nothing
<1>7. CASE MoveSubtitle
  BY <1>7 DEF MoveSubtitle
<1>8. CASE Undo
  BY <1>8 DEF Undo, WithSubs, NoSubs, Nothing
<1>9. CASE Undone
  BY <1>9 DEF Undone
<1>10. CASE Fail
  BY <1>10 DEF Fail, Gone
<1>11. CASE Report
  BY <1>11 DEF Report
<1>12. CASE Finish
  BY <1>12 DEF Finish, Gone
<1>13. CASE StartRun \/ Crash \/ Rewrite \/ Age \/ UNCHANGED vars
  BY <1>13 DEF StartRun, Crash, Rewrite, Age, vars
<1>14. CASE Sweep
  BY <1>14 DEF Sweep, Gone
<1>15. CASE \E a \in Attachable : Attach(a)
  BY <1>15 DEF Attach
<1> QED BY <1>1, <1>2, <1>3, <1>4, <1>5, <1>6, <1>7, <1>8, <1>9, <1>10, <1>11, <1>12, <1>13,
    <1>14, <1>15 DEF Next, Step, Renaming

\* ... and what is staged is in a folder that is there.
LEMMA StageThere ==
    ASSUME IInv, [Next]_vars
    PROVE  ~stage' => ~aged' /\ ~stagedSubs' /\ \A e \in Entries : staged'[e] = 0
<1> USE AddOK DEF IInv, TypeOK, RunKnows, Kept, Moving, Entries, Chain, Names, Order, version,
        staging, made, run, Nothing
<1>1. CASE Look
  BY <1>1 DEF Look
<1>2. CASE Open
  BY <1>2 DEF Open, Gone
<1>3. CASE RecordUnchanged \/ Moved \/ Check
  BY <1>3 DEF RecordUnchanged, Moved, Check
<1>4. CASE Build
  BY <1>4 DEF Build
<1>5. CASE MovePart
  BY <1>5 DEF MovePart
<1>6. CASE MoveSubs
  BY <1>6 DEF MoveSubs, WithSubs, NoSubs, Nothing
<1>7. CASE MoveSubtitle
  BY <1>7 DEF MoveSubtitle
<1>8. CASE Undo
  BY <1>8 DEF Undo, WithSubs, NoSubs, Nothing
<1>9. CASE Undone
  BY <1>9 DEF Undone
<1>10. CASE Fail
  BY <1>10 DEF Fail, Gone
<1>11. CASE Report
  BY <1>11 DEF Report
<1>12. CASE Finish
  BY <1>12 DEF Finish, Gone
<1>13. CASE StartRun \/ Crash \/ Rewrite \/ Age \/ UNCHANGED vars
  BY <1>13 DEF StartRun, Crash, Rewrite, Age, vars
<1>14. CASE Sweep
  BY <1>14 DEF Sweep, Gone
<1>15. CASE \E a \in Attachable : Attach(a)
  BY <1>15 DEF Attach
<1> QED BY <1>1, <1>2, <1>3, <1>4, <1>5, <1>6, <1>7, <1>8, <1>9, <1>10, <1>11, <1>12, <1>13,
    <1>14, <1>15 DEF Next, Step, Renaming

\* A step keeps the types.
LEMMA TypeKept ==
    ASSUME IInv, [Next]_vars
    PROVE  TypeOK'
<1>1. TypeOK
  BY DEF IInv
<1>2. builds' \in 0..MaxBuilds /\ faults' \in 0..MaxFaults
  BY <1>1, Counts
<1>3. /\ pc' \in Places /\ completing' \in BOOLEAN /\ names' \subseteq Names
      /\ moved' \in Seq(Names \cup Entries \cup Attachable)
      /\ current' \in BOOLEAN /\ taken' \in BOOLEAN /\ torn' \in BOOLEAN
  BY <1>1, RunTyped
<1>4. /\ here' \in [Entries -> 0..MaxBuilds] /\ staged' \in [Entries -> 0..MaxBuilds]
      /\ makes' \in [1..MaxBuilds -> SUBSET Entries]
      /\ attached' \in [Attachable -> {"no", "here", "staged", "gone"}]
  BY <1>1, FoldersTyped, AttachedTyped
<1>5. /\ hereSubs' \in BOOLEAN /\ stagedSubs' \in BOOLEAN
      /\ stage' \in BOOLEAN /\ aged' \in BOOLEAN
  BY <1>1, FlagsTyped
<1>6. \A s \in SubFiles : (here'[s] # 0 => hereSubs') /\ (staged'[s] # 0 => stagedSubs')
  BY SubsThere
<1>7. \A a \in Attachable : /\ attached'[a] = "here" => hereSubs'
                            /\ attached'[a] = "staged" => stagedSubs'
  BY AttachedThere
<1>8. ~stage' => ~aged' /\ ~stagedSubs' /\ \A e \in Entries : staged'[e] = 0
  BY StageThere
<1> QED BY <1>2, <1>3, <1>4, <1>5, <1>6, <1>7, <1>8 DEF TypeOK

\* One package: a build starts where there is none, a rename takes an entry from
\* one folder to the other.
LEMMA OneKept ==
    ASSUME IInv, [Next]_vars
    PROVE  One'
<1>n. PartsOf(here) = {} <=> here = Nothing
  <2>1. here \in [Entries -> Nat]
    BY AddOK DEF IInv, TypeOK
  <2> QED BY <2>1, NoPartsNothing
<1>b. builds # 0 => makes[builds] \subseteq Entries
  BY AddOK DEF IInv, TypeOK
<1> USE AddOK DEF IInv, TypeOK, One, RunKnows, version, staging, made, run, Nothing
<1>1. CASE Look
  BY <1>1, <1>n DEF Look, Completable
<1>2. CASE Open
  BY <1>2 DEF Open, Gone
<1>3. CASE RecordUnchanged \/ Moved \/ Check
  BY <1>3 DEF RecordUnchanged, Moved, Check
<1>4. CASE Build
  BY <1>4 DEF Build
<1>5. CASE Renaming
  BY <1>5, <1>b, Renames
<1>6. CASE Undone
  BY <1>6 DEF Undone
<1>7. CASE Fail
  BY <1>7 DEF Fail, Gone
<1>8. CASE Report
  BY <1>8 DEF Report
<1>9. CASE Finish
  BY <1>9 DEF Finish, Gone
<1>10. CASE StartRun \/ Crash \/ Rewrite \/ Age \/ UNCHANGED vars
  BY <1>10 DEF StartRun, Crash, Rewrite, Age, vars
<1>11. CASE Sweep
  BY <1>11 DEF Sweep, Gone
<1>12. CASE \E a \in Attachable : Attach(a)
  BY <1>12 DEF Attach
<1> QED BY <1>1, <1>2, <1>3, <1>4, <1>5, <1>6, <1>7, <1>8, <1>9, <1>10, <1>11, <1>12 DEF Next,
    Step, Renaming

\* All of it stays in the two.
LEMMA KeptKept ==
    ASSUME IInv, [Next]_vars
    PROVE  Kept'
<1>n. PartsOf(here) = {} <=> here = Nothing
  <2>1. here \in [Entries -> Nat]
    BY AddOK DEF IInv, TypeOK
  <2> QED BY <2>1, NoPartsNothing
<1>b. builds # 0 => makes[builds] \subseteq Entries
  BY AddOK DEF IInv, TypeOK
<1> USE AddOK DEF IInv, TypeOK, One, Kept, Moving, RunKnows, version, staging, made, run, Nothing
<1>1. CASE Look
  BY <1>1, <1>n DEF Look, Completable
<1>2. CASE Open
  BY <1>2 DEF Open, Gone
<1>3. CASE RecordUnchanged \/ Moved \/ Check
  BY <1>3 DEF RecordUnchanged, Moved, Check
<1>4. CASE Build
  BY <1>4 DEF Build
<1>5. CASE Renaming
  BY <1>5, <1>b, Renames
<1>6. CASE Undone
  BY <1>6 DEF Undone
<1>7. CASE Fail
  BY <1>7 DEF Fail, Gone
<1>8. CASE Report
  BY <1>8 DEF Report
<1>9. CASE Finish
  BY <1>9 DEF Finish, Gone
<1>10. CASE StartRun \/ Crash \/ Rewrite \/ Age \/ UNCHANGED vars
  BY <1>10 DEF StartRun, Crash, Rewrite, Age, vars
<1>11. CASE Sweep
  BY <1>11 DEF Sweep, Gone
<1>12. CASE \E a \in Attachable : Attach(a)
  BY <1>12 DEF Attach
<1> QED BY <1>1, <1>2, <1>3, <1>4, <1>5, <1>6, <1>7, <1>8, <1>9, <1>10, <1>11, <1>12 DEF Next,
    Step, Renaming

\* Only the renames change what is in the version folder; a check of the whole of
\* it alone forgets a failed rename back.
LEMMA HereStays ==
    ASSUME IInv, [Next]_vars, ~Renaming
    PROVE  here' = here /\ (~torn' => ~torn \/ Whole)
<1> USE DEF version, IInv, TypeOK
<1>1. CASE Look
  BY <1>1 DEF Look
<1>2. CASE Open
  BY <1>2 DEF Open, Gone
<1>3. CASE RecordUnchanged \/ Moved \/ Check
  BY <1>3 DEF RecordUnchanged, Moved, Check
<1>4. CASE Build
  BY <1>4 DEF Build
<1>5. CASE Undone
  BY <1>5 DEF Undone
<1>6. CASE Fail
  BY <1>6 DEF Fail, Gone
<1>7. CASE Report
  BY <1>7 DEF Report
<1>8. CASE Finish
  BY <1>8 DEF Finish, Gone
<1>9. CASE StartRun \/ Crash \/ Rewrite \/ Age \/ UNCHANGED vars
  BY <1>9 DEF StartRun, Crash, Rewrite, Age, vars
<1>10. CASE Sweep
  BY <1>10 DEF Sweep, Gone
<1>11. CASE \E a \in Attachable : Attach(a)
  BY <1>11 DEF Attach
<1> QED BY <1>1, <1>2, <1>3, <1>4, <1>5, <1>6, <1>7, <1>8, <1>9, <1>10, <1>11 DEF Next, Step,
    Renaming

\* What is whole stays so while nothing is moved.
LEMMA WholeStays ==
    ASSUME IInv, [Next]_vars, here' = here, Whole
    PROVE  Whole'
<1>1. pc # "build"
  <2>1. "complete" \in Entries
    BY DEF Entries, Chain
  <2> QED BY <2>1 DEF IInv, RunKnows, Whole, Nothing
<1>2. makes' = makes
  BY <1>1, Counts DEF IInv
<1> QED BY <1>2 DEF Whole

\* The rename of .complete is the last one, and makes the package whole.
LEMMA LastMakesWhole ==
    ASSUME IInv, MovePart, here["complete"] = 0, here'["complete"] # 0
    PROVE  Whole' /\ names' = {} /\ moved' = Append(moved, "complete")
<1>c. "complete" \in Entries /\ "complete" \in Names
  BY DEF Entries, Chain, Names, Order
<1>1. /\ here \in [Entries -> 0..MaxBuilds] /\ staged \in [Entries -> 0..MaxBuilds]
      /\ names \subseteq Names /\ pc = "move"
  BY DEF IInv, TypeOK, MovePart
<1>2. PICK p \in Names : Turn(p) /\ here' = [here EXCEPT ![p] = staged[p]]
                        /\ names' = names \ {p} /\ moved' = Append(moved, p)
  BY DEF MovePart
<1>3. p = "complete" /\ staged["complete"] # 0
  BY <1>c, <1>1, <1>2
<1>4. names = {"complete"}
  BY <1>1, <1>2, <1>3, CompleteIsLast
<1>5. PartsOf(staged) \subseteq {"complete"}
  BY <1>1, <1>4 DEF IInv, RunKnows
<1>6. \A e \in Entries : e # "complete" => staged[e] = 0
  BY <1>5, AddOK DEF PartsOf, Entries, Chain
<1>7. /\ builds # 0 /\ makes' = makes
      /\ \A e \in makes[builds] : here[e] # 0 \/ staged[e] # 0
  BY <1>1, Renames DEF IInv, Kept, Moving, Renaming
<1>8. \A e \in Entries :
        /\ here[e] \in {0, builds} /\ staged[e] \in {0, builds}
        /\ here[e] # 0 \/ staged[e] # 0 => e \in makes[builds]
  BY DEF IInv, One
<1>9. here'["complete"] = builds /\ \A e \in Entries : e # "complete" => here'[e] = here[e]
  BY <1>c, <1>1, <1>2, <1>3, <1>8
<1>10. \A e \in Entries : here'[e] = (IF e \in makes[builds] THEN builds ELSE 0)
  BY <1>c, <1>3, <1>6, <1>7, <1>8, <1>9
<1> QED BY <1>2, <1>3, <1>4, <1>7, <1>9, <1>10 DEF Whole

\* The undo of a rename takes .complete back first.
LEMMA UndoneFirst ==
    ASSUME IInv, Undo, here'["complete"] # 0
    PROVE  here["complete"] # 0 /\ torn'
<1>c. "complete" \in Entries /\ "complete" # "subs" /\ "complete" \notin Attachable
  BY AddOK DEF Entries, Chain
<1>1. TypeOK /\ MovedFits
  BY DEF IInv
<1>2. here["complete"] # 0
  BY <1>1, <1>c DEF Undo, TypeOK, NoSubs, WithSubs, Nothing, version
<1>3. ~torn => Last(moved) = "complete"
  BY <1>1, <1>2 DEF Undo, MovedFits, CompleteLast
<1>4. CASE torn
  BY <1>1, <1>2, <1>4 DEF Undo, TypeOK
<1>5. CASE Last(moved) = "complete"
  BY <1>1, <1>2, <1>c, <1>5 DEF Undo, TypeOK
<1> QED BY <1>2, <1>3, <1>4, <1>5

\* A reader that finds .complete finds the whole of a package.
LEMMA WholeKept ==
    ASSUME IInv, [Next]_vars
    PROVE  CompleteIsWhole'
<1>c. "complete" \in Entries /\ "complete" \notin SubFiles
  BY AddOK DEF Entries, Chain
<1>t. TypeOK /\ RunKnows /\ CompleteIsWhole
  BY DEF IInv
<1>1. CASE ~Renaming
  BY <1>1, <1>t, HereStays, WholeStays DEF CompleteIsWhole
<1>2. CASE MovePart
  <2>1. here["complete"] = 0
    BY <1>2, <1>t DEF MovePart, Turn, RunKnows
  <2> QED BY <1>2, <2>1, LastMakesWhole DEF CompleteIsWhole
<1>3. CASE MoveSubs \/ MoveSubtitle
  <2>1. here["complete"] = 0 /\ here \in [Entries -> 0..MaxBuilds]
    BY <1>3, <1>t DEF MoveSubs, MoveSubtitle, Turn, RunKnows, TypeOK
  <2>2. here'["complete"] = 0
    BY <1>c, <1>3, <2>1 DEF MoveSubs, MoveSubtitle, WithSubs, version
  <2> QED BY <2>2 DEF CompleteIsWhole
<1>4. CASE Undo
  BY <1>4, UndoneFirst DEF CompleteIsWhole
<1> QED BY <1>1, <1>2, <1>3, <1>4 DEF Renaming

\* Where a step that renames nothing leads, and what it needs,
LEMMA Leads ==
    ASSUME [Next]_vars, ~Renaming
    PROVE  /\ pc' = "open" => PartsOf(here) = {} \/ pc = "open"
           /\ pc' = "build" => pc \in {"open", "build"}
           /\ pc' = "record" => pc \in {"build", "record"} \/ here["complete"] = 0
           /\ pc' = "move" => pc = "record" \/ pc = "move"
           /\ pc' = "report" => Whole \/ pc = "report"
           /\ pc' = "finish" => pc \in {"report", "finish"}
<1> USE DEF run
<1>1. CASE Look
  BY <1>1 DEF Look
<1>2. CASE Open
  BY <1>2 DEF Open
<1>3. CASE RecordUnchanged \/ Moved \/ Check
  BY <1>3 DEF RecordUnchanged, Moved, Check
<1>4. CASE Build
  BY <1>4 DEF Build
<1>5. CASE Undone \/ Fail
  BY <1>5 DEF Undone, Fail
<1>6. CASE Report
  BY <1>6 DEF Report
<1>7. CASE Finish
  BY <1>7 DEF Finish
<1>8. CASE StartRun \/ Crash \/ Rewrite \/ Age \/ UNCHANGED vars
  BY <1>8 DEF StartRun, Crash, Rewrite, Age, vars
<1>9. CASE Sweep
  BY <1>9 DEF Sweep
<1>10. CASE \E a \in Attachable : Attach(a)
  BY <1>10 DEF Attach
<1> QED BY <1>1, <1>2, <1>3, <1>4, <1>5, <1>6, <1>7, <1>8, <1>9, <1>10 DEF Next, Step, Renaming

\* ... and when the catalog takes what.
LEMMA Takes ==
    ASSUME IInv, [Next]_vars
    PROVE  /\ taken' => taken \/ pc = "report"
           /\ taken' => pc' \in {"idle", "look", "report", "finish"}
<1> USE DEF IInv, TypeOK, RunKnows, run, PartsOf, Whole, Entries, Chain
<1>1. CASE Renaming
  BY <1>1, Renames, Counts DEF Renaming
<1>2. CASE Look
  BY <1>2 DEF Look
<1>3. CASE Open
  BY <1>3 DEF Open
<1>4. CASE RecordUnchanged \/ Moved \/ Check
  BY <1>4 DEF RecordUnchanged, Moved, Check
<1>5. CASE Build
  BY <1>5 DEF Build
<1>6. CASE Undone \/ Fail
  BY <1>6 DEF Undone, Fail
<1>7. CASE Report
  BY <1>7 DEF Report
<1>8. CASE Finish
  BY <1>8 DEF Finish
<1>9. CASE StartRun \/ Crash \/ Rewrite \/ Age \/ UNCHANGED vars
  BY <1>9 DEF StartRun, Crash, Rewrite, Age, vars
<1>10. CASE Sweep
  BY <1>10 DEF Sweep
<1>11. CASE \E a \in Attachable : Attach(a)
  BY <1>11 DEF Attach
<1> QED BY <1>1, <1>2, <1>3, <1>4, <1>5, <1>6, <1>7, <1>8, <1>9, <1>10, <1>11 DEF Next, Step,
    Renaming

\* A build starts in a staging folder that was cleared.
LEMMA BuildsClean ==
    ASSUME IInv, [Next]_vars, pc' = "build"
    PROVE  stage' /\ ~stagedSubs' /\ staged' = Nothing
<1> USE DEF IInv, RunKnows, staging, run, Gone
<1>1. CASE Renaming
  BY <1>1, Renames
<1>2. CASE Look
  BY <1>2 DEF Look
<1>3. CASE Open
  BY <1>3 DEF Open
<1>4. CASE RecordUnchanged \/ Moved \/ Check
  BY <1>4 DEF RecordUnchanged, Moved, Check
<1>5. CASE Build
  BY <1>5 DEF Build
<1>6. CASE Undone \/ Fail
  BY <1>6 DEF Undone, Fail
<1>7. CASE Report
  BY <1>7 DEF Report
<1>8. CASE Finish
  BY <1>8 DEF Finish
<1>9. CASE StartRun \/ Crash \/ Rewrite \/ Age \/ UNCHANGED vars
  BY <1>9 DEF StartRun, Crash, Rewrite, Age, vars
<1>10. CASE Sweep
  BY <1>10 DEF Sweep
<1>11. CASE \E a \in Attachable : Attach(a)
  BY <1>11 DEF Attach
<1> QED BY <1>1, <1>2, <1>3, <1>4, <1>5, <1>6, <1>7, <1>8, <1>9, <1>10, <1>11 DEF Next, Step,
    Renaming

\* Only a rename changes what is left to be moved.
LEMMA MoveLeft ==
    ASSUME [Next]_vars, ~Renaming, pc = "move", pc' = "move"
    PROVE  names' = names
<1> USE DEF IInv, RunKnows, run
<1>1. CASE Look
  BY <1>1 DEF Look
<1>2. CASE Open
  BY <1>2 DEF Open
<1>3. CASE RecordUnchanged \/ Moved \/ Check
  BY <1>3 DEF RecordUnchanged, Moved, Check
<1>4. CASE Build
  BY <1>4 DEF Build
<1>5. CASE Undone \/ Fail
  BY <1>5 DEF Undone, Fail
<1>6. CASE Report
  BY <1>6 DEF Report
<1>7. CASE Finish
  BY <1>7 DEF Finish
<1>8. CASE StartRun \/ Crash \/ Rewrite \/ Age \/ UNCHANGED vars
  BY <1>8 DEF StartRun, Crash, Rewrite, Age, vars
<1>9. CASE Sweep
  BY <1>9 DEF Sweep
<1>10. CASE \E a \in Attachable : Attach(a)
  BY <1>10 DEF Attach
<1> QED BY <1>1, <1>2, <1>3, <1>4, <1>5, <1>6, <1>7, <1>8, <1>9, <1>10 DEF Next, Step, Renaming

\* What is to be moved is what is staged.
LEMMA NamesKept ==
    ASSUME IInv, [Next]_vars, pc' \in {"record", "move"}
    PROVE  PartsOf(staged') \subseteq names' /\ names' \ {"subs"} \subseteq PartsOf(staged')
<1>1. TypeOK /\ RunKnows /\ names \subseteq Names
  BY DEF IInv, TypeOK
<1>s. "subs" \notin Entries /\ \A s \in SubFiles : s \in Entries /\ s \notin Names
  BY AddOK DEF Entries, Names, Order, Chain
<1>2. CASE Look \/ Build
  BY <1>2 DEF Look, Build, staging
<1>3. CASE RecordUnchanged
  BY <1>1, <1>3 DEF RecordUnchanged, RunKnows, staging
<1>4. CASE MovePart
  <2>1. PICK p \in Names \ {"subs"} : /\ staged' = [staged EXCEPT ![p] = 0]
                                     /\ names' = names \ {p}
    BY <1>4 DEF MovePart
  <2>2. PartsOf(staged') = PartsOf(staged) \ {p}
    BY <1>1, <1>s, <2>1 DEF PartsOf, TypeOK
  <2> QED BY <1>1, <1>4, <2>1, <2>2 DEF MovePart, RunKnows
<1>5. CASE MoveSubs \/ MoveSubtitle
  <2>1. PartsOf(staged') \subseteq PartsOf(staged)
    BY <1>1, <1>5, <1>s
    DEF MoveSubs, MoveSubtitle, PartsOf, TypeOK, WithSubs, NoSubs, Nothing
  <2>2. PartsOf(staged) \ {"subs"} \subseteq PartsOf(staged')
    BY <1>1, <1>5, <1>s
    DEF MoveSubs, MoveSubtitle, PartsOf, TypeOK, WithSubs, NoSubs, Nothing
  <2>3. names' = names \/ (names' = names \ {"subs"} /\ "subs" \notin PartsOf(staged'))
    BY <1>1, <1>5, <1>s
    DEF MoveSubs, MoveSubtitle, PartsOf, TypeOK, WithSubs, NoSubs, Nothing
  <2> QED BY <1>1, <1>5, <2>1, <2>2, <2>3 DEF MoveSubs, MoveSubtitle, RunKnows
<1>6. CASE Rewrite \/ UNCHANGED vars \/ \E a \in Attachable : Attach(a)
  BY <1>1, <1>6 DEF Rewrite, vars, Attach, RunKnows, staging, run
<1>7. CASE Open \/ Moved \/ Check \/ Undo \/ Undone \/ Fail
  BY <1>7 DEF Open, Moved, Check, Undo, Undone, Fail
<1>8. CASE Report \/ Finish \/ StartRun \/ Crash \/ Age \/ Sweep
  BY <1>8 DEF Report, Finish, StartRun, Crash, Age, Sweep, run
<1> QED BY <1>2, <1>3, <1>4, <1>5, <1>6, <1>7, <1>8 DEF Next, Step

\* .complete is moved when nothing else is left to move.
LEMMA CompleteMoved ==
    ASSUME IInv, MovePart \/ MoveSubs \/ MoveSubtitle
    PROVE  /\ here["complete"] = 0
           /\ here'["complete"] # 0 => MovePart
<1>c. "complete" \in Entries /\ "complete" \notin SubFiles
  BY AddOK DEF Entries, Chain
<1>1. here["complete"] = 0 /\ here \in [Entries -> 0..MaxBuilds]
  BY DEF MovePart, MoveSubs, MoveSubtitle, Turn, IInv, RunKnows, TypeOK
<1>2. CASE MoveSubs \/ MoveSubtitle
  BY <1>c, <1>1, <1>2 DEF MoveSubs, MoveSubtitle, WithSubs, version
<1> QED BY <1>1, <1>2

\* While a step renames nothing, a run knows what it needs where it leads.
LEMMA KnowsKept ==
    ASSUME IInv, [Next]_vars
    PROVE  RunKnows'
<1>c. "complete" \in Entries
  BY DEF Entries, Chain
<1>1. TypeOK /\ RunKnows
  BY DEF IInv
<1>2. PartsOf(here) = {} => here = Nothing
  <2>1. here \in [Entries -> Nat]
    BY <1>1, AddOK DEF TypeOK
  <2> QED BY <2>1, NoPartsNothing
<1>3. CASE Renaming
  <2>1. pc \in {"move", "undo"} /\ pc' \in {"move", "undo"} /\ ~taken /\ ~taken'
    BY <1>1, <1>3, Renames, Takes DEF RunKnows
  <2>2. pc' = "move" /\ here'["complete"] # 0 => names' = {}
    <3>1. CASE Undo
      BY <3>1 DEF Undo
    <3>2. CASE MovePart \/ MoveSubs \/ MoveSubtitle
      BY <3>2, CompleteMoved, LastMakesWhole
    <3> QED BY <1>3, <3>1, <3>2 DEF Renaming
  <2> QED BY <2>1, <2>2, NamesKept DEF RunKnows
<1>4. CASE ~Renaming
  <2>1. here' = here
    BY <1>4, HereStays
  <2>2. pc' \in {"open", "build"} => here' = Nothing
    BY <1>1, <1>2, <1>4, <2>1, Leads DEF RunKnows
  <2>3. pc' = "record" => here'["complete"] = 0
    BY <1>1, <1>4, <1>c, <2>1, Leads DEF RunKnows, Nothing
  <2>4. pc' = "move" /\ here'["complete"] # 0 => names' = {}
    BY <1>1, <1>4, <2>1, Leads, MoveLeft DEF RunKnows
  <2>5. pc' \in {"report", "finish"} => Whole'
    BY <1>1, <1>4, <2>1, Leads, WholeStays DEF RunKnows
  <2>6. taken' => Whole' /\ pc' \in {"idle", "look", "report", "finish"}
    BY <1>1, <2>1, Takes, WholeStays DEF RunKnows
  <2> QED BY <2>2, <2>3, <2>4, <2>5, <2>6, NamesKept, BuildsClean DEF RunKnows
<1> QED BY <1>3, <1>4

\* A step that renames nothing keeps the list, or ends it with the run.
LEMMA ListStays ==
    ASSUME IInv, [Next]_vars, ~Renaming
    PROVE  /\ moved' = moved \/ moved' = << >>
           /\ pc' \notin {"move", "check", "undo", "report"} => moved' = << >>
           /\ pc' \in {"move", "check", "undo"} =>
                  pc \in Moving /\ moved' = moved /\ (torn => torn')
           /\ moved # << >> => names' \subseteq names /\ (hereSubs => hereSubs')
           /\ moved # << >> => staged' = staged \/ staged' = Nothing
<1> USE DEF IInv, TypeOK, MovedFits, Moving, staging, run, version, Gone
<1>1. CASE Look
  BY <1>1 DEF Look
<1>2. CASE Open
  BY <1>2 DEF Open
<1>3. CASE RecordUnchanged \/ Moved \/ Check
  BY <1>3 DEF RecordUnchanged, Moved, Check
<1>4. CASE Build
  BY <1>4 DEF Build
<1>5. CASE Undone \/ Fail
  BY <1>5 DEF Undone, Fail
<1>6. CASE Report
  BY <1>6 DEF Report
<1>7. CASE Finish
  BY <1>7 DEF Finish
<1>8. CASE StartRun \/ Crash \/ Rewrite \/ Age \/ UNCHANGED vars
  BY <1>8 DEF StartRun, Crash, Rewrite, Age, vars
<1>9. CASE Sweep
  BY <1>9 DEF Sweep
<1>10. CASE \E a \in Attachable : Attach(a)
  BY <1>10 DEF Attach
<1> QED BY <1>1, <1>2, <1>3, <1>4, <1>5, <1>6, <1>7, <1>8, <1>9, <1>10 DEF Next, Step, Renaming

\* x is renamed, and listed.
Adds(x) ==
    /\ moved' = Append(moved, x) /\ names' \subseteq names /\ pc' = "move"
    /\ \A e \in Entries : staged'[e] \in {staged[e], 0}
    /\ hereSubs => hereSubs'
    /\ x \in Entries => staged[x] # 0 /\ staged'[x] = 0
    /\ x \in SubFiles => hereSubs' /\ "subs" \in names
    /\ x = "subs" => /\ "subs" \in names /\ "subs" \notin names' /\ ~hereSubs
                     /\ \A s \in SubFiles : staged'[s] = 0

\* What a rename adds to the list was staged, and was not in it.
LEMMA Appended ==
    ASSUME IInv, MovePart \/ MoveSubs \/ MoveSubtitle
    PROVE  \/ /\ moved' = moved /\ names' \subseteq names
              /\ UNCHANGED <<here, staged, hereSubs, torn>>
           \/ \E x \in Names \cup Entries \cup Attachable : Adds(x)
<1>t. TypeOK /\ RunKnows
  BY DEF IInv
<1>s. /\ \A s \in SubFiles : s \in Entries /\ s # "subs"
      /\ \A a \in Attachable : a \notin Entries /\ a # "subs"
      /\ "subs" \in Names /\ "subs" \notin Entries
      /\ Names \ {"subs"} \subseteq Entries \ SubFiles
  BY AddOK DEF Entries, Names, Order, Chain
<1>1. CASE MovePart
  <2>1. PICK p \in Names \ {"subs"} :
          /\ Turn(p)
          /\ \/ moved' = moved /\ UNCHANGED <<here, staged, names>>
             \/ /\ staged' = [staged EXCEPT ![p] = 0] /\ pc' = pc
                /\ names' = names \ {p} /\ moved' = Append(moved, p)
    BY <1>1 DEF MovePart
  <2>2. UNCHANGED <<hereSubs, torn>> /\ pc = "move"
    BY <1>1 DEF MovePart
  <2>3. staged[p] # 0
    BY <1>t, <1>s, <2>1, <2>2 DEF RunKnows, PartsOf, Turn
  <2>4. CASE moved' = moved /\ UNCHANGED <<here, staged, names>>
    BY <2>2, <2>4
  <2>5. CASE /\ staged' = [staged EXCEPT ![p] = 0] /\ pc' = pc
             /\ names' = names \ {p} /\ moved' = Append(moved, p)
    <3>1. p \in Names \cup Entries \cup Attachable
      BY <1>s
    <3>2. Adds(p)
      BY <1>t, <1>s, <2>2, <2>3, <2>5 DEF TypeOK, Adds
    <3> QED BY <3>1, <3>2
  <2> QED BY <2>1, <2>4, <2>5
<1>2. CASE MoveSubs
  <2>1. pc = "move" /\ "subs" \in names /\ ~hereSubs /\ torn' = torn
    BY <1>2 DEF MoveSubs, Turn
  <2>2. CASE moved' = moved /\ UNCHANGED <<here, staged, hereSubs, names>>
    BY <2>1, <2>2
  <2>3. CASE /\ moved' = Append(moved, "subs") /\ names' = names \ {"subs"}
             /\ staged' = NoSubs(staged) /\ hereSubs' = TRUE /\ pc' = pc
    <3>1. "subs" \in Names \cup Entries \cup Attachable
      BY <1>s
    <3>2. Adds("subs")
      BY <1>t, <1>s, <2>1, <2>3 DEF TypeOK, NoSubs, WithSubs, Nothing, Adds
    <3> QED BY <3>1, <3>2
  <2> QED BY <1>2, <2>2, <2>3 DEF MoveSubs, version
<1>3. CASE MoveSubtitle
  <2>1. pc = "move" /\ "subs" \in names /\ hereSubs /\ UNCHANGED <<hereSubs, torn>>
    BY <1>3 DEF MoveSubtitle, Turn
  <2>2. CASE moved' = moved /\ names' \subseteq names /\ UNCHANGED <<here, staged>>
    BY <2>1, <2>2
  <2>3. ASSUME NEW s \in SubFiles, staged[s] # 0, moved' = Append(moved, s),
               staged' = [staged EXCEPT ![s] = 0], names' = names, pc' = pc
        PROVE  \E x \in Names \cup Entries \cup Attachable : Adds(x)
    <3>1. s \in Names \cup Entries \cup Attachable
      BY <1>s
    <3>2. Adds(s)
      BY <1>t, <1>s, <2>1, <2>3 DEF TypeOK, Adds
    <3> QED BY <3>1, <3>2
  <2>4. ASSUME NEW a \in Attachable, moved' = Append(moved, a),
               staged' = staged, names' = names, pc' = pc
        PROVE  \E x \in Names \cup Entries \cup Attachable : Adds(x)
    <3>1. a \in Names \cup Entries \cup Attachable
      BY <1>s
    <3>2. Adds(a)
      BY <1>t, <1>s, <2>1, <2>4 DEF TypeOK, Adds
    <3> QED BY <3>1, <3>2
  <2> QED BY <1>3, <2>2, <2>3, <2>4 DEF MoveSubtitle
<1> QED BY <1>1, <1>2, <1>3

\* What a rename takes, or takes back, with its place in the list.
LEMMA MovedKept ==
    ASSUME IInv, [Next]_vars
    PROVE  MovedFits'
<1> DEFINE S == Names \cup Entries \cup Attachable
<1>t. TypeOK /\ RunKnows /\ MovedFits /\ moved \in Seq(S) /\ names \subseteq Names
  BY DEF IInv, TypeOK
<1>s. /\ \A s \in SubFiles : s \in Entries /\ s \notin Names /\ s # "subs"
      /\ \A a \in Attachable : a \notin Entries /\ a # "subs"
      /\ "subs" \in Names /\ "subs" \notin Entries
      /\ Names \ {"subs"} \subseteq Entries \ SubFiles
  BY AddOK DEF Entries, Names, Order, Chain
<1>l. Len(moved) \in Nat
  BY <1>t, LenProperties
<1> HIDE DEF S
<1>1. CASE ~Renaming
  <2>1. moved' = moved \/ moved' = << >>
    BY <1>1, ListStays
  <2>2. ListFits'
    BY <1>1, <1>t, <1>s, <2>1, ListStays DEF MovedFits, ListFits, Nothing
  <2>3. ListedOnce'
    BY <1>t, <2>1 DEF MovedFits, ListedOnce
  <2>4. CompleteLast'
    <3>1. ASSUME pc' \in {"move", "check", "undo"} PROVE moved' = moved /\ pc \in Moving
      BY <1>1, <3>1, ListStays
    <3>2. here' = here /\ (pc' \in {"move", "check", "undo"} /\ torn => torn')
      BY <1>1, HereStays, ListStays
    <3> QED BY <1>t, <3>1, <3>2 DEF MovedFits, CompleteLast, RunKnows, Moving
  <2> QED BY <1>1, <2>2, <2>3, <2>4, ListStays DEF MovedFits
<1>2. CASE MovePart \/ MoveSubs \/ MoveSubtitle
  <2>1. pc' \in {"move", "undo"}
    BY <1>2, Renames DEF Renaming
  <2>2. CASE /\ moved' = moved /\ names' \subseteq names
             /\ UNCHANGED <<here, staged, hereSubs, torn>>
    <3>1. ListFits' /\ ListedOnce'
      BY <1>t, <2>2 DEF MovedFits, ListFits, ListedOnce
    <3>2. here["complete"] = 0
      BY <1>2, CompleteMoved
    <3> QED BY <2>1, <2>2, <3>1, <3>2 DEF MovedFits, CompleteLast
  <2>3. ASSUME NEW x \in Names \cup Entries \cup Attachable, Adds(x)
        PROVE  MovedFits'
    <3>1. /\ Len(moved') = Len(moved) + 1 /\ moved' # << >> /\ moved'[Len(moved) + 1] = x
          /\ \A k \in 1..Len(moved) : moved'[k] = moved[k]
      BY <1>t, <2>3, AppendProperties DEF Adds, S
    <3>2. \A k \in 1..Len(moved') : k \in 1..Len(moved) \/ k = Len(moved) + 1
      BY <1>l, <3>1
    <3>3. \A k \in 1..Len(moved) : moved[k] = x => x \in Attachable
      BY <1>t, <1>s, <2>3 DEF MovedFits, ListFits, Adds
    <3>4. ListedOnce'
      BY <1>t, <1>l, <3>1, <3>2, <3>3 DEF MovedFits, ListedOnce
    <3>5. ListFits'
      BY <1>t, <1>s, <1>l, <2>3, <3>1, <3>2 DEF MovedFits, ListFits, Adds, TypeOK
    <3>6. CompleteLast'
      <4>1. ASSUME here'["complete"] # 0
            PROVE  moved' = Append(moved, "complete")
        BY <1>2, <4>1, CompleteMoved, LastMakesWhole
      <4>2. moved' = Append(moved, "complete") => Last(moved') = "complete"
        BY <1>t, <1>s, <3>1, AppendProperties DEF Last, Adds, S
      <4> QED BY <3>1, <4>1, <4>2 DEF CompleteLast
    <3> QED BY <2>1, <3>4, <3>5, <3>6 DEF MovedFits
  <2> QED BY <1>2, <2>2, <2>3, Appended
<1>3. CASE Undo
  <2> DEFINE m == moved[Len(moved)]
  <2>1. /\ moved # << >> /\ moved' = Front(moved) /\ pc' = "undo" /\ pc = "undo"
        /\ names' = names
    BY <1>3 DEF Undo
  <2>2. /\ Len(moved') = Len(moved) - 1 /\ Len(moved) \in Nat \ {0} /\ Last(moved) = m
        /\ \A k \in 1..(Len(moved) - 1) : moved'[k] = moved[k]
    BY <1>t, <2>1, FrontLast
  <2>3. \A k \in 1..Len(moved') :
          /\ k \in 1..Len(moved) /\ moved'[k] = moved[k] /\ k # Len(moved)
          /\ Len(moved) \in 1..Len(moved)
    BY <2>2
  <2>4. ListedOnce'
    BY <1>t, <2>3 DEF MovedFits, ListedOnce
  <2>5. \A k \in 1..Len(moved') : moved'[k] = m => m \in Attachable
    BY <1>t, <2>3 DEF MovedFits, ListedOnce
  <2>6. \/ m = "subs" /\ staged' = WithSubs(staged, here) /\ hereSubs' = FALSE
        \/ m \in Entries /\ staged' = [staged EXCEPT ![m] = here[m]] /\ hereSubs' = hereSubs
        \/ staged' = staged /\ hereSubs' = hereSubs
    BY <1>3, <2>2 DEF Undo, version
  <2> HIDE DEF m
  <2>7. ListFits'
    <3>1. CASE m = "subs" /\ staged' = WithSubs(staged, here)
      <4>1. \A k \in 1..Len(moved') : moved'[k] \notin SubFiles /\ moved'[k] # "subs"
        BY <1>t, <1>s, <2>3, <2>5, <3>1 DEF MovedFits, ListFits, m
      <4>2. \A e \in Entries \ SubFiles : staged'[e] = staged[e]
        BY <3>1 DEF WithSubs
      <4> QED BY <1>t, <2>3, <4>1, <4>2 DEF MovedFits, ListFits
    <3>2. CASE /\ m \in Entries /\ staged' = [staged EXCEPT ![m] = here[m]]
               /\ hereSubs' = hereSubs
      <4>1. \A e \in Entries : e # m => staged'[e] = staged[e]
        BY <1>t, <3>2 DEF TypeOK
      <4>2. \A k \in 1..Len(moved') : moved'[k] # m
        BY <1>s, <2>5, <3>2
      <4>3. (\E k \in 1..Len(moved') : moved'[k] = "subs") => m \notin SubFiles
        BY <1>t, <2>3 DEF MovedFits, ListFits, m
      <4> QED BY <1>t, <1>s, <2>1, <2>3, <3>2, <4>1, <4>2, <4>3 DEF MovedFits, ListFits
    <3>3. CASE staged' = staged /\ hereSubs' = hereSubs
      BY <1>t, <2>1, <2>3, <3>3 DEF MovedFits, ListFits
    <3> QED BY <2>6, <3>1, <3>2, <3>3
  <2>8. CompleteLast'
    BY <1>3, UndoneFirst DEF CompleteLast
  <2> QED BY <2>1, <2>4, <2>7, <2>8 DEF MovedFits
<1> QED BY <1>1, <1>2, <1>3 DEF Renaming

-----------------------------------------------------------------------------
(* Theorems *)

\* Whatever fails, dies, is retried or attached, the parts of IInv hold together:
\* the package is in the two folders, each entry in one of them, and the run's
\* lists say which.
THEOREM Invariance == Spec => []IInv
<1>1. Init => IInv
  <2>1. << >> \in Seq(Names \cup Entries \cup Attachable) /\ Len(<< >>) = 0
    BY EmptySeq
  <2>2. Init => TypeOK
    <3> SUFFICES ASSUME Init PROVE TypeOK
      OBVIOUS
    <3>1. 0 \in 0..MaxBuilds /\ 0 \in 0..MaxFaults
      BY AddOK
    <3>2. /\ here \in [Entries -> 0..MaxBuilds] /\ staged \in [Entries -> 0..MaxBuilds]
          /\ makes \in [1..MaxBuilds -> SUBSET Entries]
          /\ attached \in [Attachable -> {"no", "here", "staged", "gone"}]
          /\ names \subseteq Names /\ pc \in Places
      BY <3>1 DEF Init, Nothing, Places
    <3>3. /\ \A e \in Entries : here[e] = 0 /\ staged[e] = 0
          /\ \A a \in Attachable : attached[a] = "no"
          /\ SubFiles \subseteq Entries
      BY DEF Init, Nothing, Entries
    <3> QED BY <2>1, <3>1, <3>2, <3>3 DEF Init, TypeOK
  <2>3. Init => One /\ Kept /\ RunKnows /\ CompleteIsWhole
    BY AddOK DEF Init, One, Kept, RunKnows, CompleteIsWhole, Moving, Nothing, Entries, Chain
  <2>4. Init => MovedFits
    BY <2>1 DEF Init, MovedFits, ListFits, ListedOnce, CompleteLast
  <2> QED BY <2>2, <2>3, <2>4 DEF IInv
<1>2. IInv /\ [Next]_vars => IInv'
  BY TypeKept, OneKept, KeptKept, KnowsKept, MovedKept, WholeKept DEF IInv
<1> QED BY <1>1, <1>2, PTL DEF Spec

\* A reader that finds .complete finds the whole of one package, at every rename
\* and undo, and after a death anywhere, but for a rename back that failed.
THEOREM CompleteAlwaysWhole == Spec => []CompleteIsWhole
<1>1. IInv => CompleteIsWhole
  BY DEF IInv
<1> QED BY <1>1, Invariance, PTL

\* The two folders never hold parts of two packages, however adds fail and die.
THEOREM OnlyOnePackage == Spec => []OnePackage
<1>1. IInv => OnePackage
  BY DEF IInv, One, OnePackage
<1> QED BY <1>1, Invariance, PTL

\* Once the catalog took the package nothing moves a file of it.
THEOREM TakenNotMoved == Spec => TakenStays
<1>1. IInv /\ [Next]_vars => (taken => here' = here /\ here["complete"] # 0)
  <2> SUFFICES ASSUME IInv, [Next]_vars, taken
               PROVE  here' = here /\ here["complete"] # 0
    OBVIOUS
  <2>1. Whole /\ pc \notin {"move", "undo"}
    BY DEF IInv, RunKnows
  <2>2. ~Renaming
    BY <2>1, Renames
  <2> QED BY <2>1, <2>2, HereStays DEF Whole
<1>2. IInv /\ [Next]_vars => [taken => here' = here /\ here["complete"] # 0]_vars
  BY <1>1
<1> QED BY <1>2, Invariance, PTL DEF Spec, TakenStays

\* A cleanup takes away what the package does not need, and no rename loses.
LEMMA RestMoved ==
    ASSUME IInv, [Next]_vars, NEW e \in Entries, staged[e] # 0, staged'[e] = 0, here'[e] = 0
    PROVE  aged \/ PartsOf(here') = {}
<1>1. TypeOK /\ RunKnows /\ One
  BY DEF IInv
<1>2. here = Nothing => PartsOf(here) = {}
  <2>1. here \in [Entries -> Nat]
    BY <1>1, AddOK DEF TypeOK
  <2> QED BY <2>1, NoPartsNothing
<1>3. CASE Renaming
  BY <1>3, Renames
<1>4. CASE Open \/ Build
  BY <1>1, <1>2, <1>4 DEF Open, Build, RunKnows, Nothing, staging, version
<1>5. CASE Fail
  BY <1>1, <1>5 DEF Fail, staging, version
<1>6. CASE Finish
  <2>1. "complete" \in Entries /\ pc = "finish" /\ here' = here
    BY <1>6 DEF Finish, version, Entries, Chain
  <2> QED BY <1>1, <2>1 DEF RunKnows, Whole, One
<1>7. CASE Look \/ RecordUnchanged \/ Moved \/ Check \/ Undone \/ Report
  BY <1>7 DEF Look, RecordUnchanged, Moved, Check, Undone, Report, staging
<1>8. CASE StartRun \/ Crash \/ Rewrite \/ Age \/ UNCHANGED vars
  BY <1>8 DEF StartRun, Crash, Rewrite, Age, staging, vars
<1>9. CASE Sweep \/ \E a \in Attachable : Attach(a)
  BY <1>9 DEF Sweep, Attach, staging
<1> QED BY <1>3, <1>4, <1>5, <1>6, <1>7, <1>8, <1>9 DEF Next, Step, Renaming

\* Only an undo takes an attached subtitle away.
LEMMA AttachedMoved ==
    ASSUME IInv, [Next]_vars, NEW a \in Attachable, attached[a] = "here", attached'[a] # "here"
    PROVE  pc = "undo"
<1>1. attached \in [Attachable -> {"no", "here", "staged", "gone"}]
  BY DEF IInv, TypeOK
<1>2. CASE MovePart \/ MoveSubs \/ MoveSubtitle
  BY <1>1, <1>2 DEF MovePart, MoveSubs, MoveSubtitle, Carried
<1>3. CASE Undo \/ Undone
  BY <1>3 DEF Undo, Undone
<1>4. CASE Open \/ Build
  BY <1>1, <1>4 DEF Open, Build, Gone, Carried
<1>5. CASE Fail \/ Finish \/ Sweep
  BY <1>1, <1>5 DEF Fail, Finish, Sweep, Gone, Carried
<1>6. CASE Look \/ RecordUnchanged \/ Moved \/ Check \/ Report
  BY <1>6 DEF Look, RecordUnchanged, Moved, Check, Report
<1>7. CASE StartRun \/ Crash \/ Rewrite \/ Age \/ UNCHANGED vars
  BY <1>7 DEF StartRun, Crash, Rewrite, Age, vars
<1>8. CASE \E b \in Attachable : Attach(b)
  BY <1>1, <1>8 DEF Attach
<1> QED BY <1>2, <1>3, <1>4, <1>5, <1>6, <1>7, <1>8 DEF Next, Step

\* What is left in staging of an add that died, or that could not be undone, is
\* what completes it: only the sweep of an old folder takes it away; and only an
\* undo touches what the catalog attached.
THEOREM RestStays == Spec => RestKept
<1> DEFINE A == /\ \A e \in Entries : staged[e] # 0 /\ staged'[e] = 0 /\ here'[e] = 0 =>
                        aged \/ PartsOf(here') = {}
                /\ \A a \in Attachable :
                        attached[a] = "here" /\ attached'[a] # "here" => pc = "undo"
<1>1. IInv /\ [Next]_vars => A
  BY RestMoved, AttachedMoved
<1>2. IInv /\ [Next]_vars => [A]_vars
  BY <1>1
<1> QED BY <1>2, Invariance, PTL DEF Spec, RestKept

=============================================================================
