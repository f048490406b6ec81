----------------------------- MODULE PackageStore -----------------------------
(***************************************************************************)
(* An item's folder in the package store v1 (packager.py): a run builds    *)
(* the next package in `.next/`, swaps it in entry by entry (the live      *)
(* entry renamed <name>.old-<stamp>, the staged one moved up), replaces    *)
(* manifest.json in one rename, retires what the new package does not have *)
(* and writes .complete; a failure moves everything back.  What a swap     *)
(* replaced stays for a grace period, for the readers that started on it.  *)
(*                                                                         *)
(* Packages are numbered by the run that built them, 0 is none; a swap's   *)
(* stamp is its run's number.                                              *)
(***************************************************************************)
EXTENDS Naturals, Sequences, SequencesExt, FiniteSets

CONSTANTS
    Order,       \* each of a package's entries' place in the order of a swap
    Optional,    \* ... of which a run may leave these out
    Failures,    \* what may fail: "call", "undo", "crash"
    MaxRuns, MaxFaults

Parts == DOMAIN Order
Runs  == 1..MaxRuns

ASSUME FolderOK ==
    /\ Order \in [Parts -> Nat]
    /\ \A p, q \in Parts : Order[p] = Order[q] => p = q
    /\ Optional \subseteq Parts
    /\ Failures \subseteq {"call", "undo", "crash"}
    /\ MaxRuns \in Nat \ {0} /\ MaxFaults \in Nat

VARIABLES
    live,        \* part -> the package whose entry has the live name
    manifest,    \* the package manifest.json is of
    complete,    \* .complete is there
    failed,      \* .failed is there
    old,         \* replaced entries: whose, and which swap replaced them
    expired,     \* swaps whose grace period is over
    stage,       \* the staging folder is there ...
    stale,       \* ... its sentinel more than a day old
    staged,      \* ... and the parts in it
    makes,       \* package -> its parts
    pc, run,
    moved,       \* the renames of the swap so far
    timers,      \* swaps whose removal is on a timer of this process
    was,         \* history: the folder when the run started
    torn,        \* history: a swap stopped half way, or half its undo failed
    faults

folder == <<live, manifest, complete, failed, old>>
staging == <<stage, stale, staged, makes>>
vars   == <<folder, expired, staging, pc, run, moved, timers, was, torn, faults>>

Places == {"idle", "open", "build", "swap", "undo", "retire", "complete",
           "finish", "fail"}
Moves  == [part : Parts, up : BOOLEAN]
Old    == [part : Parts, of : Runs, by : Runs]

TypeOK ==
    /\ live \in [Parts -> 0..MaxRuns] /\ manifest \in 0..MaxRuns
    /\ complete \in BOOLEAN /\ failed \in BOOLEAN
    /\ old \subseteq Old /\ expired \subseteq Runs
    /\ stage \in BOOLEAN /\ stale \in BOOLEAN /\ staged \subseteq Parts
    /\ ~stage => staged = {} /\ ~stale
    /\ makes \in [0..MaxRuns -> SUBSET Parts]
    /\ pc \in Places /\ run \in 0..MaxRuns /\ moved \in Seq(Moves)
    /\ timers \subseteq Runs /\ torn \in BOOLEAN /\ faults \in 0..MaxFaults

Init ==
    /\ live = [p \in Parts |-> 0] /\ manifest = 0
    /\ complete = FALSE /\ failed = FALSE /\ old = {} /\ expired = {}
    /\ stage = FALSE /\ stale = FALSE /\ staged = {}
    /\ makes = [r \in 0..MaxRuns |-> {}]
    /\ pc = "idle" /\ run = 0 /\ moved = << >> /\ timers = {}
    /\ was = <<live, manifest, complete>> /\ torn = FALSE /\ faults = 0

Sound == UNCHANGED faults
Faulty(what) == what \in Failures /\ faults < MaxFaults /\ faults' = faults + 1

-----------------------------------------------------------------------------
(* A run: package_item *)

Start ==
    /\ pc = "idle" /\ run < MaxRuns /\ Sound
    /\ pc' = "open" /\ run' = run + 1
    /\ was' = <<live, manifest, complete>>
    /\ UNCHANGED <<folder, expired, staging, moved, timers, torn>>

\* Mutant of InGrace: what an earlier run replaced is a leftover.
InGraceNone == {}

\* The entries of replaced packages whose grace period is not over.
InGrace == {e \in old : e.by \notin expired}

\* _open_staging: replaced entries past their grace go, if they can be removed;
\* what an earlier run left staged goes, or the run fails.
Open ==
    /\ pc = "open"
    /\ \/ Sound /\ old' = InGrace /\ pc' = "build"
          /\ stage' = TRUE /\ staged' = {} /\ stale' = FALSE
       \/ Faulty("call") /\ old' \in {old, InGrace} /\ pc' = "build"
          /\ stage' = TRUE /\ staged' = {} /\ stale' = FALSE
       \/ Faulty("call") /\ old' = InGrace /\ pc' = "fail"
          /\ UNCHANGED <<stage, staged, stale>>
    /\ UNCHANGED <<live, manifest, complete, failed, expired, makes, run, moved, timers, was,
                   torn>>

\* build_package, then _verify_staged: whole, or the run fails.
Build ==
    /\ pc = "build" /\ Sound
    /\ \/ \E without \in SUBSET Optional :
            /\ makes' = [makes EXCEPT ![run] = Parts \ without]
            /\ staged' = Parts \ without
            /\ pc' = "swap"
       \/ pc' = "fail" /\ UNCHANGED <<makes, staged>>
    /\ UNCHANGED <<folder, expired, stage, stale, run, moved, timers, was, torn>>

-----------------------------------------------------------------------------
(* _swap_in *)

\* The part whose turn it is, of those to move (sorted: hls last).
Turn(p) == p \in staged /\ \A q \in staged : Order[p] <= Order[q]

\* Mutant of Displace: live entries are displaced before their turn.
DisplaceAny ==
    /\ pc = "swap" /\ Sound
    /\ \E p \in staged :
        /\ live[p] # 0
        /\ old' = old \cup {[part |-> p, of |-> live[p], by |-> run]}
        /\ live' = [live EXCEPT ![p] = 0]
        /\ moved' = Append(moved, [part |-> p, up |-> FALSE])
    /\ UNCHANGED <<manifest, complete, failed, expired, staging, pc, run, timers, was, torn>>

\* The live entry renamed <name>.old-<stamp> within the item folder.
Displace ==
    /\ pc = "swap"
    /\ \E p \in Parts :
       /\ Turn(p) /\ live[p] # 0
       /\ \/ /\ Sound
             /\ old' = old \cup {[part |-> p, of |-> live[p], by |-> run]}
             /\ live' = [live EXCEPT ![p] = 0]
             /\ moved' = Append(moved, [part |-> p, up |-> FALSE])
             /\ UNCHANGED pc
          \/ Faulty("call") /\ pc' = "undo" /\ UNCHANGED <<old, live, moved>>
    /\ UNCHANGED <<manifest, complete, failed, expired, staging, run, timers, was, torn>>

\* The staged entry moved up to the live name, which is free.
MoveUp ==
    /\ pc = "swap"
    /\ \E p \in Parts :
       /\ Turn(p) /\ live[p] = 0
       /\ \/ /\ Sound
             /\ live' = [live EXCEPT ![p] = run]
             /\ staged' = staged \ {p}
             /\ moved' = Append(moved, [part |-> p, up |-> TRUE])
             /\ UNCHANGED pc
          \/ Faulty("call") /\ pc' = "undo" /\ UNCHANGED <<live, staged, moved>>
    /\ UNCHANGED <<manifest, complete, failed, old, expired, stage, stale, makes,
                   run, timers, was, torn>>

\* Mutant of ReplaceManifest: before the entries it names.
ReplaceManifestFirst ==
    /\ pc = "swap" /\ Sound
    /\ \/ moved = << >> /\ manifest # run /\ manifest' = run /\ UNCHANGED <<moved, pc>>
       \/ staged = {} /\ moved' = << >> /\ pc' = "retire" /\ UNCHANGED manifest
    /\ UNCHANGED <<live, complete, failed, old, expired, staging, run, timers, was, torn>>

\* manifest.json last, in one rename.
ReplaceManifest ==
    /\ pc = "swap" /\ staged = {}
    /\ \/ Sound /\ manifest' = run /\ moved' = << >> /\ pc' = "retire" /\ torn' = FALSE
       \/ Faulty("call") /\ pc' = "undo" /\ UNCHANGED <<manifest, moved, torn>>
    /\ UNCHANGED <<live, complete, failed, old, expired, staging, run, timers, was>>

\* Mutant of Undo: what moved first goes back first.
UndoInOrder ==
    LET m == Head(moved)
        e == [part |-> m.part, of |-> was[1][m.part], by |-> run]
        back == IF m.up THEN live[m.part] = run ELSE live[m.part] = 0 /\ e \in old
    IN
    /\ pc = "undo" /\ moved # << >> /\ Sound
    /\ moved' = Tail(moved)
    /\ live' = (IF back THEN [live EXCEPT ![m.part] = IF m.up THEN 0 ELSE e.of] ELSE live)
    /\ old' = (IF back /\ ~m.up THEN old \ {e} ELSE old)
    /\ staged' = (IF back /\ m.up THEN staged \cup {m.part} ELSE staged)
    /\ UNCHANGED <<manifest, complete, failed, expired, stage, stale, makes, pc, run,
                   timers, was, torn>>

\* A failure up to there moves everything back, last first; a rename back that
\* fails is logged, and one onto an entry that is there fails.
Undo ==
    LET m == Last(moved)
        e == [part |-> m.part, of |-> IF m.up THEN run ELSE was[1][m.part], by |-> run]
        free == live[m.part] = 0
    IN
    /\ pc = "undo" /\ moved # << >>
    /\ moved' = Front(moved)
    /\ \/ /\ m.up /\ Sound /\ UNCHANGED torn
          /\ live' = [live EXCEPT ![m.part] = 0]
          /\ staged' = staged \cup {m.part} /\ UNCHANGED old
       \/ /\ ~m.up /\ free /\ e \in old /\ Sound /\ UNCHANGED torn
          /\ live' = [live EXCEPT ![m.part] = e.of]
          /\ old' = old \ {e} /\ UNCHANGED staged
       \/ /\ ~m.up /\ (~free \/ e \notin old) /\ Sound /\ UNCHANGED torn
          /\ UNCHANGED <<live, staged, old>>
       \/ Faulty("undo") /\ torn' = TRUE /\ UNCHANGED <<live, staged, old>>
    /\ UNCHANGED <<manifest, complete, failed, expired, stage, stale, makes, pc, run,
                   timers, was>>

\* Mutant of Undone: the exception is not raised again.
UndoneSwallowed ==
    /\ pc = "undo" /\ moved = << >> /\ Sound /\ pc' = "retire"
    /\ UNCHANGED <<folder, expired, staging, run, moved, timers, was, torn>>

Undone ==
    /\ pc = "undo" /\ moved = << >> /\ Sound /\ pc' = "fail"
    /\ UNCHANGED <<folder, expired, staging, run, moved, timers, was, torn>>

\* What the new package has not is retired too, each if its rename succeeds; a
\* folder that can't be listed fails the run.
Retire ==
    LET leftovers == {p \in Parts : live[p] # 0 /\ p \notin makes[run]} IN
    /\ pc = "retire"
    /\ \E kept \in SUBSET leftovers :
        /\ IF kept = {} THEN Sound \/ Faulty("call") ELSE Faulty("call")
        /\ live' = [p \in Parts |-> IF p \in leftovers \ kept THEN 0 ELSE live[p]]
        /\ old' = old \cup {[part |-> p, of |-> live[p], by |-> run] : p \in leftovers \ kept}
        /\ pc' = "complete" \/ (pc' = "fail" /\ faults' > faults)
    /\ UNCHANGED <<manifest, complete, failed, expired, staging, run, moved, timers, was, torn>>

\* .complete is written, .failed unlinked; either may raise, past the undo.
MarkComplete ==
    /\ pc = "complete"
    /\ \/ Sound /\ complete' = TRUE /\ failed' = FALSE /\ pc' = "finish"
       \/ Faulty("call") /\ complete' \in {complete, TRUE} /\ pc' = "fail" /\ UNCHANGED failed
    /\ UNCHANGED <<live, manifest, old, expired, staging, run, moved, timers, was, torn>>

\* The staging folder goes, if it can be removed; the grace timer starts.
Finish ==
    /\ pc = "finish" /\ pc' = "idle"
    /\ \/ Sound /\ stage' = FALSE /\ stale' = FALSE
       \/ Faulty("call") /\ UNCHANGED <<stage, stale>>
    /\ timers' = timers \cup {e.by : e \in {o \in old : o.by = run}}
    /\ UNCHANGED <<folder, expired, staged, makes, run, moved, was, torn>>

\* Best effort: a folder that can't be written hides no error.
WriteFailed ==
    \/ Sound /\ failed' = TRUE
    \/ Faulty("call") /\ UNCHANGED failed

\* package_item's except: the staging folder goes, .failed is written.
Fail ==
    /\ pc = "fail" /\ pc' = "idle" /\ moved' = << >>
    /\ \/ WriteFailed /\ stage' = FALSE /\ stale' = FALSE /\ staged' = {}
       \/ Faulty("call") /\ failed' = TRUE /\ UNCHANGED <<stage, stale, staged>>
    /\ UNCHANGED <<live, manifest, complete, old, expired, makes, run, timers, was, torn>>

\* The process dies, its timers with it.
Crash ==
    /\ pc # "idle" /\ Faulty("crash")
    /\ pc' = "idle" /\ timers' = {} /\ moved' = << >>
    /\ torn' = (torn \/ (pc \in {"swap", "undo"} /\ moved # << >>))
    /\ UNCHANGED <<folder, expired, staging, run, was>>

-----------------------------------------------------------------------------
(* Removal: the grace timer, the sweep of a replica that starts *)

\* A swap and its undo are over long before their stamp is a grace period old.
GraceEnds(r) ==
    /\ r \notin expired
    /\ \/ r < run
       \/ r = run /\ pc = "idle"
    /\ expired' = expired \cup {r}
    /\ UNCHANGED <<folder, staging, pc, run, moved, timers, was, torn, faults>>

\* _remove_after's timer.
Timer(r) ==
    /\ r \in timers \cap expired
    /\ timers' = timers \ {r}
    /\ \/ Sound /\ old' = {e \in old : e.by # r}
       \/ Faulty("call") /\ old' \in {old \ {e} : e \in {o \in old : o.by = r}} \cup {old}
    /\ UNCHANGED <<live, manifest, complete, failed, expired, staging, pc, run, moved, was, torn>>

\* sweep_leftovers at this folder, entry by entry beside a run.
SweepReplaced ==
    /\ \E e \in old \ InGrace : old' = old \ {e}
    /\ UNCHANGED <<live, manifest, complete, failed, expired, staging, pc, run, moved,
                   timers, was, torn, faults>>

\* ... and the staging folder of a run that started more than a day ago.
SweepStaging ==
    /\ stage /\ stale /\ pc = "idle"
    /\ stage' = FALSE /\ stale' = FALSE /\ staged' = {}
    /\ UNCHANGED <<folder, expired, makes, pc, run, moved, timers, was, torn, faults>>

\* A day passes over what a dead run left staged.
Age ==
    /\ stage /\ ~stale /\ pc = "idle" /\ stale' = TRUE
    /\ UNCHANGED <<folder, expired, stage, staged, makes, pc, run, moved, timers, was, torn,
                   faults>>

-----------------------------------------------------------------------------
(* package_status *)

\* What an operator is told of the title; "unknown" of a folder that has none
\* of the sentinels, and of no folder "absent".
Status ==
    IF complete THEN "complete"
    ELSE IF stage THEN "packaging"
    ELSE IF failed THEN "failed"
    ELSE IF run = 0 \/ (run = 1 /\ pc = "open") THEN "absent" ELSE "unknown"

Run ==
    \/ Start \/ Open \/ Build \/ Displace \/ MoveUp \/ ReplaceManifest
    \/ Undo \/ Undone \/ Retire \/ MarkComplete \/ Finish \/ Fail

Next ==
    \/ Run \/ Crash \/ SweepReplaced \/ SweepStaging \/ Age
    \/ \E r \in Runs : GraceEnds(r) \/ Timer(r)

Spec == Init /\ [][Next]_vars

-----------------------------------------------------------------------------
(* Properties *)

Missing == {p \in makes[manifest] : live[p] = 0}

\* At rest a title's folder is one package, whole: every entry its manifest
\* names is that package's (README, "Packaging again": "A reader gets the old
\* package or the new one"), whatever failed and was undone since; only a
\* process that died, or an undo that failed, half way through a swap leaves
\* anything else, until the next run that succeeds: that one leaves its own
\* package, whole, and says so, whatever was left before it.  What an operator
\* is told is so: a title that is said to be packaged has a package, and one at
\* rest is said to be at work, or nothing of a run it had, only after a fault.
WholeAtRest ==
    /\ Status = "complete" => manifest # 0
    /\ pc = "idle" /\ Status \in {"packaging", "unknown"} => faults > 0
    /\ Status \in {"packaging", "failed", "unknown"} /\ manifest # 0 => faults > 0 \/ pc \in {"retire", "complete"}
    /\ complete /\ pc = "idle" /\ ~torn => \A p \in makes[manifest] : live[p] = manifest
    /\ pc = "finish" =>
         /\ manifest = run /\ complete /\ ~failed
         /\ \A p \in makes[run] : live[p] = run

\* At no moment of a swap, its undo or its leftovers' retiring does a reader of
\* the manifest miss more than the one entry that is between its two renames,
\* and that entry is readable under its .old name: nor does one of the new
\* manifest, which comes last.
OneGap == ~torn =>
    /\ Cardinality(Missing) <= 1
    /\ \A p \in Missing : \E e \in old : e.part = p /\ e.of = manifest

\* A replaced entry, which readers may still be at, goes only when its grace is
\* over, whoever removes it; else it is back under its live name.
GraceHonoured ==
    [][\A e \in old \ old' : e.by \in expired \/ live'[e.part] = e.of]_vars
=============================================================================
