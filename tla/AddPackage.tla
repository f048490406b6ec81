------------------------------ MODULE AddPackage ------------------------------
(***************************************************************************)
(* Build mode `add` (library.py, _add_package): a package built in staging *)
(* goes, rename by rename, into a version folder that is in the record     *)
(* already, with its original and, in its subs/, whatever subtitles the    *)
(* catalog attached: the one place where the library is not written in a   *)
(* single rename.  A rename that fails is undone with those before it; an  *)
(* add that died is completed by the next run from what it left in staging.*)
(*                                                                         *)
(* Packages are numbered by the build that made them, 0 is none.           *)
(***************************************************************************)
EXTENDS Naturals, Sequences, SequencesExt

CONSTANTS
    SubFiles,    \* a package's own subtitle files
    Attachable,  \* subtitles the catalog may attach to the version
    Failures,    \* what may fail: "call", "undo", "crash"
    Races,       \* {"attach"}: subtitles are attached during a run too
    MaxBuilds, MaxFaults

Chain   == {"checksums", "package", "complete"}
Entries == {"hls", "trickplay"} \cup SubFiles \cup Chain

\* PACKAGE_DIRS, then CHAIN: the order of the renames.
Order == [hls |-> 1, subs |-> 2, trickplay |-> 3,
          checksums |-> 4, package |-> 5, complete |-> 6]
Names == DOMAIN Order

ASSUME AddOK ==
    /\ SubFiles \cap ({"hls", "subs", "trickplay"} \cup Chain) = {}
    /\ Attachable \cap (Entries \cup {"subs"}) = {}
    /\ Failures \subseteq {"call", "undo", "crash"} /\ Races \subseteq {"attach"}
    /\ MaxBuilds \in Nat \ {0} /\ MaxFaults \in Nat

VARIABLES
    here,        \* entry -> the package whose it is, in the version folder
    staged,      \* ... and in the staging folder
    hereSubs, stagedSubs,   \* each one's subs/ is there
    attached,    \* subtitle -> where the file the catalog attached is
    current,     \* version.json is the record the newest chain lists
    stage, aged, \* the staging folder is there; its sentinel a day old
    makes,       \* package -> its entries
    builds,
    taken,       \* the catalog took the version's package
    pc,
    completing,  \* the run completes an add that died
    names,       \* what the run has still to rename
    moved,       \* what it has renamed, in order
    torn,        \* history: a rename back failed
    faults

version == <<here, hereSubs>>
staging == <<staged, stagedSubs, stage, aged>>
made    == <<makes, builds>>
run     == <<pc, completing, names, moved>>
vars    == <<version, staging, attached, current, made, taken, run, torn, faults>>

Places == {"idle", "look", "open", "build", "record", "move", "check", "undo",
           "failed", "report", "finish"}

TypeOK ==
    /\ here \in [Entries -> 0..MaxBuilds] /\ staged \in [Entries -> 0..MaxBuilds]
    /\ hereSubs \in BOOLEAN /\ stagedSubs \in BOOLEAN
    /\ \A s \in SubFiles : (here[s] # 0 => hereSubs) /\ (staged[s] # 0 => stagedSubs)
    /\ attached \in [Attachable -> {"no", "here", "staged", "gone"}]
    /\ \A a \in Attachable : /\ attached[a] = "here" => hereSubs
                             /\ attached[a] = "staged" => stagedSubs
    /\ current \in BOOLEAN /\ taken \in BOOLEAN /\ torn \in BOOLEAN
    /\ stage \in BOOLEAN /\ aged \in BOOLEAN
    /\ ~stage => ~aged /\ ~stagedSubs /\ \A e \in Entries : staged[e] = 0
    /\ makes \in [1..MaxBuilds -> SUBSET Entries] /\ builds \in 0..MaxBuilds
    /\ pc \in Places /\ completing \in BOOLEAN
    /\ names \subseteq Names /\ moved \in Seq(Names \cup Entries \cup Attachable)
    /\ faults \in 0..MaxFaults

Nothing == [e \in Entries |-> 0]

\* The version taken in: its original, its record, no package.
Init ==
    /\ here = Nothing /\ staged = Nothing
    /\ hereSubs = FALSE /\ stagedSubs = FALSE
    /\ attached = [a \in Attachable |-> "no"]
    /\ current = FALSE /\ stage = FALSE /\ aged = FALSE
    /\ makes = [n \in 1..MaxBuilds |-> {}] /\ builds = 0 /\ taken = FALSE
    /\ pc = "idle" /\ completing = FALSE /\ names = {} /\ moved = << >>
    /\ torn = FALSE /\ faults = 0

Sound == UNCHANGED faults
Faulty(what) == what \in Failures /\ faults < MaxFaults /\ faults' = faults + 1

\* _package_parts: a subs/ of attached subtitles alone is no part.
PartsOf(folder) ==
    {e \in Entries \ SubFiles : folder[e] # 0}
        \cup {n \in {"subs"} : \E s \in SubFiles : folder[s] # 0}

\* verify_chain: every file of the package whose .complete it is, no other
\* package's, and the record its checksums list.
Whole ==
    LET n == here["complete"] IN
    /\ n # 0
    /\ \A e \in Entries : here[e] = (IF e \in makes[n] THEN n ELSE 0)

-----------------------------------------------------------------------------
(* A run: _add_package *)

StartRun ==
    /\ pc = "idle" /\ Sound
    /\ pc' = "look" /\ completing' = FALSE
    /\ UNCHANGED <<version, staging, attached, current, made, taken, names, moved, torn>>

\* Mutant of Completable: a part that is in both folders is a conflict.
CompletableStrict ==
    /\ stage /\ current
    /\ PartsOf(here) \cap PartsOf(staged) = {}
    /\ Chain \subseteq PartsOf(here) \cup PartsOf(staged)

\* _complete_add's conditions: each part in one of the two, no subtitle in
\* both, the chain among them, the staged copy of version.json still its own.
Completable ==
    /\ stage /\ current
    /\ PartsOf(here) \cap PartsOf(staged) \subseteq {"subs"}
    /\ \A s \in SubFiles : here[s] = 0 \/ staged[s] = 0
    /\ Chain \subseteq PartsOf(here) \cup PartsOf(staged)

\* Mutant of Look: part of a package is taken for a folder to start clean in.
LookClean ==
    /\ pc = "look" /\ Sound
    /\ pc' = (IF here["complete"] = 0 THEN "open" ELSE IF Whole THEN "report" ELSE "idle")
    /\ current' = (here["complete"] = 0 \/ current)
    /\ UNCHANGED <<version, staging, attached, made, taken, completing, names, moved, torn>>

\* A complete package is reported again, part of one completed, else the run
\* starts clean; a folder or an original that isn't what it should be fails it.
Look ==
    /\ pc = "look"
    /\ \/ /\ here["complete"] # 0 /\ Whole /\ current
          /\ pc' = "report" /\ Sound /\ UNCHANGED <<current, completing, names>>
       \/ /\ here["complete"] = 0 /\ PartsOf(here) # {} /\ Completable
          /\ pc' = "record" /\ completing' = TRUE /\ Sound
          /\ names' = PartsOf(staged)
          /\ UNCHANGED current
       \/ /\ PartsOf(here) = {}
          /\ pc' = "open" /\ current' = TRUE /\ Sound /\ UNCHANGED <<completing, names>>
       \/ /\ IF here["complete"] # 0 THEN ~(Whole /\ current)
             ELSE PartsOf(here) # {} /\ ~Completable
          /\ pc' = "idle" /\ Sound /\ UNCHANGED <<current, completing, names>>
       \/ pc' = "idle" /\ Faulty("call") /\ UNCHANGED <<current, completing, names>>
    /\ UNCHANGED <<version, staging, attached, made, taken, moved, torn>>

\* A folder with another's subtitles, or without its own.
WithSubs(folder, from) == [e \in Entries |-> IF e \in SubFiles THEN from[e] ELSE folder[e]]
NoSubs(folder) == WithSubs(folder, Nothing)

\* The attached subtitles that are in one place go to another.
Carried(from, to) ==
    [a \in Attachable |-> IF attached[a] = from THEN to ELSE attached[a]]

\* What is in the staging folder is gone.
Gone ==
    /\ staged' = Nothing /\ stagedSubs' = FALSE /\ aged' = FALSE
    /\ attached' = Carried("staged", "gone")

Open ==
    /\ pc = "open"
    /\ \/ Sound /\ Gone /\ stage' = TRUE /\ pc' = "build"
       \/ Faulty("call") /\ pc' = "idle" /\ UNCHANGED <<staging, attached>>
    /\ UNCHANGED <<version, current, made, taken, completing, names, moved, torn>>

\* build_package, the chain closed over it and version.json's copy, both checked.
Build ==
    /\ pc = "build" /\ Sound
    /\ \/ \E without \in {{}, SubFiles, {"trickplay"}} :
            LET n == builds + 1 IN
            /\ n <= MaxBuilds /\ builds' = n
            /\ makes' = [makes EXCEPT ![n] = Entries \ without]
            /\ staged' = [e \in Entries |-> IF e \in without THEN 0 ELSE n]
            /\ stagedSubs' = (SubFiles \ without # {})
            /\ names' = PartsOf(staged')
            /\ pc' = "record"
       \/ pc' = "failed" /\ UNCHANGED <<made, staged, stagedSubs, names>>
    /\ UNCHANGED <<version, stage, aged, attached, current, taken, completing, moved, torn>>

-----------------------------------------------------------------------------
(* _add_into *)

\* version.json is still the record the chain lists, or nothing is moved.
RecordUnchanged ==
    /\ pc = "record"
    /\ \/ current /\ pc' = "move" /\ Sound
       \/ ~current /\ pc' = "undo" /\ Sound
       \/ pc' = "undo" /\ Faulty("call")
    /\ UNCHANGED <<version, staging, attached, current, made, taken, completing, names,
                   moved, torn>>

\* The part whose turn it is.
Turn(p) == p \in names /\ \A q \in names : Order[p] <= Order[q]

\* A folder or a file of the chain, renamed in one step; never over anything.
MovePart ==
    /\ pc = "move"
    /\ \E p \in Names \ {"subs"} :
       /\ Turn(p)
       /\ \/ /\ here[p] = 0 /\ Sound
             /\ here' = [here EXCEPT ![p] = staged[p]]
             /\ staged' = [staged EXCEPT ![p] = 0]
             /\ names' = names \ {p} /\ moved' = Append(moved, p) /\ UNCHANGED pc
          \/ /\ IF here[p] = 0 THEN Faulty("call") ELSE Sound
             /\ pc' = "undo" /\ UNCHANGED <<here, staged, names, moved>>
    /\ UNCHANGED <<hereSubs, stagedSubs, stage, aged, attached, current, made, taken,
                   completing, torn>>

\* Mutant of MoveSubs: subs/ is renamed onto the one that is there.
MoveSubsOver ==
    /\ pc = "move" /\ Turn("subs") /\ Sound
    /\ here' = WithSubs(here, staged) /\ staged' = NoSubs(staged)
    /\ attached' = Carried("here", "gone")
    /\ hereSubs' = TRUE /\ stagedSubs' = FALSE
    /\ names' = names \ {"subs"} /\ moved' = Append(moved, "subs")
    /\ UNCHANGED <<stage, aged, current, made, taken, pc, completing, torn>>

\* subs/, when the version folder has none.
MoveSubs ==
    /\ pc = "move" /\ Turn("subs") /\ ~hereSubs
    /\ \/ /\ Sound
          /\ here' = WithSubs(here, staged) /\ staged' = NoSubs(staged)
          /\ attached' = Carried("staged", "here")
          /\ hereSubs' = TRUE /\ stagedSubs' = FALSE
          /\ names' = names \ {"subs"} /\ moved' = Append(moved, "subs") /\ UNCHANGED pc
       \/ Faulty("call") /\ pc' = "undo"
          /\ UNCHANGED <<version, staged, stagedSubs, attached, names, moved>>
    /\ UNCHANGED <<stage, aged, current, made, taken, completing, torn>>

\* ... and file by file when it has one, beside what that holds; the staged
\* subs/ goes once empty.
MoveSubtitle ==
    /\ pc = "move" /\ Turn("subs") /\ hereSubs
    /\ \/ \E s \in SubFiles :
            /\ staged[s] # 0 /\ here[s] = 0 /\ Sound
            /\ here' = [here EXCEPT ![s] = staged[s]]
            /\ staged' = [staged EXCEPT ![s] = 0]
            /\ moved' = Append(moved, s)
            /\ UNCHANGED <<attached, stagedSubs, names, pc>>
       \/ \E a \in Attachable :
            /\ attached[a] = "staged" /\ Sound
            /\ attached' = [attached EXCEPT ![a] = "here"]
            /\ moved' = Append(moved, a)
            /\ UNCHANGED <<here, staged, stagedSubs, names, pc>>
       \/ /\ \A s \in SubFiles : staged[s] = 0
          /\ \A a \in Attachable : attached[a] # "staged"
          /\ Sound /\ stagedSubs' = FALSE /\ names' = names \ {"subs"}
          /\ UNCHANGED <<here, staged, attached, moved, pc>>
       \/ /\ IF \A s \in SubFiles : staged[s] = 0 \/ here[s] = 0 THEN Faulty("call") ELSE Sound
          /\ pc' = "undo" /\ UNCHANGED <<here, staged, attached, stagedSubs, names, moved>>
    /\ UNCHANGED <<hereSubs, stage, aged, current, made, taken, completing, torn>>

\* The chain checked in the version folder.
Check ==
    /\ pc = "check"
    /\ \/ Whole /\ current /\ Sound /\ pc' = "report" /\ torn' = FALSE
       \/ ~(Whole /\ current) /\ Sound /\ pc' = "undo" /\ UNCHANGED torn
       \/ Faulty("call") /\ pc' = "undo" /\ UNCHANGED torn
    /\ UNCHANGED <<version, staging, attached, current, made, taken, completing, names, moved>>

Moved ==
    /\ pc = "move" /\ names = {} /\ Sound /\ pc' = "check"
    /\ UNCHANGED <<version, staging, attached, current, made, taken, completing, names,
                   moved, torn>>

\* Mutant of Undo: what moved first goes back first.
UndoInOrder ==
    /\ pc = "undo" /\ moved # << >> /\ Sound
    /\ LET m == Head(moved) IN
       /\ here' = IF m = "subs" THEN NoSubs(here)
                  ELSE [e \in Entries |-> IF e = m THEN 0 ELSE here[e]]
       /\ staged' = IF m = "subs" THEN WithSubs(staged, here)
                    ELSE [e \in Entries |-> IF e = m THEN here[e] ELSE staged[e]]
       /\ hereSubs' = (hereSubs /\ m # "subs")
       /\ stagedSubs' = (stagedSubs \/ m \in {"subs"} \cup SubFiles)
    /\ moved' = Tail(moved)
    /\ UNCHANGED <<stage, aged, attached, current, made, taken, pc, completing, names, torn>>

\* A step that fails moves back what this run moved, last first; a rename back
\* that fails is logged.  subs/ goes back as it is by now.
Undo ==
    /\ pc = "undo" /\ moved # << >>
    /\ moved' = Front(moved)
    /\ LET m == Last(moved) IN
       \/ /\ m = "subs" /\ Sound /\ UNCHANGED torn
          /\ staged' = WithSubs(staged, here) /\ here' = NoSubs(here)
          /\ attached' = Carried("here", "staged")
          /\ hereSubs' = FALSE /\ stagedSubs' = TRUE
       \/ /\ m \in Entries /\ Sound /\ UNCHANGED <<torn, attached, hereSubs>>
          /\ staged' = [staged EXCEPT ![m] = here[m]]
          /\ here' = [here EXCEPT ![m] = 0]
          /\ stagedSubs' = (stagedSubs \/ m \in SubFiles)
       \/ /\ m \in Attachable /\ Sound /\ UNCHANGED <<torn, here, staged, hereSubs>>
          /\ attached' = [attached EXCEPT ![m] = "staged"] /\ stagedSubs' = TRUE
       \/ /\ Faulty("undo") /\ torn' = TRUE
          /\ UNCHANGED <<version, staged, stagedSubs, attached>>
    /\ UNCHANGED <<stage, aged, current, made, taken, pc, completing, names>>

\* The exception goes on: out of the run (_complete_add), or to its except.
Undone ==
    /\ pc = "undo" /\ moved = << >> /\ Sound
    /\ pc' = (IF completing THEN "idle" ELSE "failed") /\ names' = {}
    /\ UNCHANGED <<version, staging, attached, current, made, taken, completing, moved, torn>>

\* Mutant of Fail: the staging folder goes, whatever was moved out of it.
FailRemoves ==
    /\ pc = "failed" /\ pc' = "idle" /\ names' = {} /\ Sound
    /\ Gone /\ stage' = FALSE
    /\ UNCHANGED <<version, current, made, taken, completing, moved, torn>>

\* _add_package's except: the staging folder stays when part of the package
\* could not be moved back; else it goes, best effort.
Fail ==
    /\ pc = "failed" /\ pc' = "idle" /\ names' = {}
    /\ \/ PartsOf(here) # {} /\ Sound /\ UNCHANGED <<staging, attached>>
       \/ PartsOf(here) = {} /\ Sound /\ Gone /\ stage' = FALSE
       \/ PartsOf(here) = {} /\ Faulty("call") /\ UNCHANGED <<staging, attached>>
    /\ UNCHANGED <<version, current, made, taken, completing, moved, torn>>

\* Mutant of Report: a handover that isn't answered is undone.
ReportUndone ==
    /\ pc = "report"
    /\ \/ Sound /\ taken' = TRUE /\ moved' = << >> /\ pc' = "finish"
       \/ Faulty("call") /\ taken' \in {taken, TRUE} /\ pc' = "undo" /\ UNCHANGED moved
    /\ UNCHANGED <<version, staging, attached, current, made, completing, names, torn>>

\* packaging_complete_v2: taken, refused, or its answer lost.
Report ==
    /\ pc = "report" /\ moved' = << >>
    /\ \/ Sound /\ taken' = TRUE /\ pc' = "finish"
       \/ Faulty("call") /\ taken' \in {taken, TRUE} /\ pc' = "idle"
    /\ UNCHANGED <<version, staging, attached, current, made, completing, names, torn>>

\* library.finish: best effort.
Finish ==
    /\ pc = "finish" /\ pc' = "idle"
    /\ \/ Sound /\ Gone /\ stage' = FALSE
       \/ Faulty("call") /\ UNCHANGED <<staging, attached>>
    /\ UNCHANGED <<version, current, made, taken, completing, names, moved, torn>>

\* The process dies; both folders stay as they are.
Crash ==
    /\ pc # "idle" /\ Faulty("crash")
    /\ pc' = "idle" /\ names' = {} /\ moved' = << >>
    /\ UNCHANGED <<version, staging, attached, current, made, taken, completing, torn>>

Step ==
    \/ Look \/ Open \/ Build \/ RecordUnchanged \/ MovePart \/ MoveSubs
    \/ MoveSubtitle \/ Moved \/ Check \/ Undo \/ Undone \/ Fail \/ Report \/ Finish

-----------------------------------------------------------------------------
(* The catalog, and time *)

\* The catalog attaches a subtitle to the version: a file in its subs/.
Attach(a) ==
    /\ attached[a] = "no" /\ (pc = "idle" \/ "attach" \in Races)
    /\ attached' = [attached EXCEPT ![a] = "here"] /\ hereSubs' = TRUE
    /\ UNCHANGED <<here, staging, current, made, taken, run, torn, faults>>

\* Someone writes version.json.
Rewrite ==
    /\ current /\ current' = FALSE
    /\ UNCHANGED <<version, staging, attached, made, taken, run, torn, faults>>

Age ==
    /\ stage /\ ~aged /\ pc = "idle" /\ aged' = TRUE
    /\ UNCHANGED <<version, staged, stagedSubs, stage, attached, current, made, taken, run,
                   torn, faults>>

\* sweep_staging: it looks at the sentinel's age alone (an add stages no original).
Sweep ==
    /\ stage /\ aged /\ pc = "idle"
    /\ Gone /\ stage' = FALSE
    /\ UNCHANGED <<version, current, made, taken, run, torn, faults>>

Next ==
    \/ StartRun \/ Step \/ Crash \/ Rewrite \/ Age \/ Sweep
    \/ \E a \in Attachable : Attach(a)

Spec == Init /\ [][Next]_vars

\* A run goes on, and a step that is not done is delivered or retried.
FairSpec == Spec /\ WF_vars(Step) /\ SF_vars(StartRun)

-----------------------------------------------------------------------------
(* Properties *)

\* A reader that finds .complete finds the package it names, all of it and no
\* other's, at every step of the renames and of their undo, and after a crash
\* anywhere; only a rename back that failed can leave it over less.
CompleteIsWhole == here["complete"] # 0 /\ ~torn => Whole

\* However runs fail, die and are completed, the version folder and the staging
\* folder that goes with it never hold parts of two packages: an add that died
\* is completed or left, never started over beside what it moved.
OnePackage ==
    \A e, f \in Entries :
        here[e] # 0 =>
            /\ here[f] \in {0, here[e]}
            /\ here["complete"] = 0 => staged[f] \in {0, here[e]}

\* What the catalog was told of stays: once it took the package nothing moves a
\* file of it, whatever is retried.
TakenStays == [][taken => here' = here /\ here["complete"] # 0]_vars

\* What an add that died or could not be undone left staged is what is needed
\* to complete it; nobody throws it away before a day is over.  And no rename
\* of an add, no cleanup and no sweep touches what the catalog attached,
\* whenever it comes: only the undo of an add that failed can.
RestKept ==
    [][/\ \A e \in Entries :
            staged[e] # 0 /\ staged'[e] = 0 /\ here'[e] = 0 => aged \/ PartsOf(here') = {}
       /\ \A a \in Attachable : attached[a] = "here" /\ attached'[a] # "here" => pc = "undo"]_vars

\* README: "nothing the packager does moves or removes one", of the subtitles
\* the catalog attached.
AttachedStay ==
    [][\A a \in Attachable : attached[a] = "here" => attached'[a] = "here"]_vars

\* An add that died between its renames is completed (or taken back whole), if
\* version.json stays and nobody sweeps what it left.
Completes ==
    PartsOf(here) # {} ~> Whole \/ PartsOf(here) = {} \/ ~stage \/ ~current \/ torn
=============================================================================
