--------------------------------- MODULE Chain ---------------------------------
(***************************************************************************)
(* The chain of a library version's folder: .complete names package.json,  *)
(* which names checksums.sha256, which lists the record and every file of  *)
(* the package; how it is closed, filled where it was left pending, and    *)
(* read back (close_chain; chain_problems and fill_checksums of the record *)
(* logic).                                                                 *)
(*                                                                         *)
(* A file's content is <<size, bytes>> and stands for its digest; a record *)
(* that may be missing is a set of one or none.                            *)
(***************************************************************************)
EXTENDS Integers, FiniteSets, FiniteSetsExt

\* A folder: version.json, the package's files, the subtitles the catalog
\* attached (whether each holds the bytes its name says), and the chain.
NewFolder(record, pkg) ==
  [record |-> record, pkg |-> pkg, attached |-> {}, sums |-> {}, package |-> {}, complete |-> {}]

\* The record and the files listed with it, by name.
Listed(f) == {<<"version.json", f.record>>} \cup {<<n, f.pkg[n]>> : n \in DOMAIN f.pkg}
Total(listing) == MapThenSumSet(LAMBDA e : e[2][1], listing)

\* The object package.json keeps: pending, it has no listing to name.
Checksums(listing, pending) ==
  [pending |-> pending, names |-> IF pending THEN {} ELSE {listing},
   files |-> Cardinality(listing), bytes |-> Total(listing)]

\* Mutant of Closing: .complete before the checksums.
ClosingMarkFirst(f, pending) ==
  LET cs == Checksums(Listed(f), pending)
      marked == [f EXCEPT !.complete = {cs}, !.package = {cs}]
      summed == IF pending THEN marked ELSE [marked EXCEPT !.sums = {Listed(f)}]
  IN <<marked, summed, summed>>

\* The folders the writes of a closing leave one after the other: the
\* checksums unless they are pending, package.json, .complete.
Closing(f, pending) ==
  LET cs == Checksums(Listed(f), pending)
      summed == IF pending THEN f ELSE [f EXCEPT !.sums = {Listed(f)}]
      named == [summed EXCEPT !.package = {cs}]
  IN <<summed, named, [named EXCEPT !.complete = {cs}]>>

\* Mutant of Present: an attached subtitle is a file like any other.
PresentAttached(f) == Listed(f) \cup {<<a, <<1, 1>>>> : a \in f.attached}

\* What the folder holds of its package; an attached subtitle is none of it.
Present(f) == Listed(f)

Names(listing) == {e[1] : e \in listing}

\* What the names listed and held differ in; the sizes of what is listed and
\* here; the record's digest; with full, every file's.
OpenProblems(f, cs) ==
  {p \in {"sums", "files", "bytes"} :
     CASE p = "sums" -> f.sums # {}
       [] p = "files" -> Cardinality(Present(f)) # cs.files
       [] OTHER -> Total(Present(f)) # cs.bytes}

ClosedProblems(f, cs, full) ==
  LET listing == UNION f.sums
      here == {e \in Present(f) : e[1] \in Names(listing)}
  IN {p \in {"sums", "unlisted", "gone", "files", "bytes", "record", "digest"} :
        CASE p = "sums" -> f.sums # cs.names
          [] p = "unlisted" -> ~ Names(Present(f)) \subseteq Names(listing)
          [] p = "gone" -> ~ Names(listing) \subseteq Names(Present(f))
          [] p = "files" -> Cardinality(listing) # cs.files
          [] p = "bytes" -> Total(here) # cs.bytes
          [] p = "record" -> <<"version.json", f.record>> \notin listing
          [] OTHER -> full /\ ~ here \subseteq listing}

AttachedProblems(f, full) == IF full /\ "wrong" \in f.attached THEN {"attached"} ELSE {}

ChainProblems(f, full) ==
  IF f.complete = {} \/ f.package = {} THEN {"unfinished"}
  ELSE LET cs == CHOOSE c \in f.package : TRUE
       IN (IF f.complete # f.package THEN {"complete"} ELSE {})
          \cup IF cs.pending THEN OpenProblems(f, cs) \cup AttachedProblems(f, full)
               ELSE IF f.sums = {} THEN {"no sums"}
               ELSE ClosedProblems(f, cs, full) \cup AttachedProblems(f, full)

ChecksumsPending(f) == \E cs \in f.package : cs.pending

\* The writes that close a pending chain over what was hashed, none when the
\* folder, or what was hashed, is not as it was counted; they are made in this
\* order, each in one step.
FillChecksums(f, hashed) ==
  IF \/ ~ ChecksumsPending(f) \/ ChainProblems(f, FALSE) # {}
     \/ Cardinality(Listed(hashed)) # (CHOOSE c \in f.package : TRUE).files
     \/ Total(Listed(hashed)) # (CHOOSE c \in f.package : TRUE).bytes
  THEN << >>
  ELSE Closing(hashed, FALSE)
================================================================================
