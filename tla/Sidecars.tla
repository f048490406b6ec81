-------------------------------- MODULE Sidecars --------------------------------
(***************************************************************************)
(* The subtitle files beside an original, from the catalog's list of them  *)
(* to the list that tells the catalog which rendition each became          *)
(* (_subtitle_files, _stage_source, _recorded_source, _convert_subtitle_   *)
(* files, _copies_of, _handover).                                          *)
(*                                                                         *)
(* A file: its asset (the catalog's id of it, "none" where it has none),   *)
(* path, bytes, taken (a subtitle file in a folder the run takes files     *)
(* from), copied (there and not too large when the record is made) and     *)
(* converts.  A copy: its number, the path of the file it is or was made   *)
(* of, and its bytes.                                                      *)
(***************************************************************************)
EXTENDS Lists, SequencesExt

SubtitleFiles(entries) == Kept(entries, {i \in DOMAIN entries : entries[i].taken})

Copy(number, path, bytes) == [number |-> number, path |-> path, bytes |-> bytes]

\* A new record's copies, numbered in the catalog's order.
StageCopies(files) ==
  LET copied == Kept(files, {k \in DOMAIN files : files[k].copied})
  IN [n \in DOMAIN copied |-> Copy(n, copied[n].path, copied[n].bytes)]

\* A record's that is there already: the copies are its own files.
RecordedCopies(bytes) == [n \in DOMAIN bytes |-> Copy(n, <<"record", n>>, bytes[n])]

\* Mutant of Converted: a file that fails gives its number to the next.
ConvertedAnew(files) ==
  [n \in 1 .. Cardinality({k \in DOMAIN files : files[k].converts}) |-> n]

\* The renditions made of files, each by its file's number.
Converted(files) == InOrder({k \in DOMAIN files : files[k].converts}, Len(files))

\* The place in a list of what has this path, else of what has these bytes; 0
\* where nothing that is left does.
Match(seq, path, bytes, taken) ==
  LET left == DOMAIN seq \ taken
      same == {i \in left : seq[i].path = path}
      like == {i \in left : seq[i].bytes = bytes}
      first(S) == CHOOSE i \in S : \A j \in S : i <= j
  IN IF same # {} THEN first(same) ELSE IF like # {} THEN first(like) ELSE 0

\* Each of `wants` in its order takes its match of those in the list that are
\* left: <<its id, the match>> where it has one.
Matched(ids, wants, list) ==
  LET take[n \in 0 .. Len(ids)] ==
        IF n = 0 THEN <<>>
        ELSE LET pairs == take[n - 1]
                 i == Match(list, wants[n].path, wants[n].bytes, {p[2] : p \in Range(pairs)})
             IN IF i = 0 THEN pairs ELSE Append(pairs, <<ids[n], i>>)
  IN take[Len(ids)]

\* Which copy each rendition is said to be made from: <<rendition, copy>>, in
\* the order of the renditions, a copy for one of them.
CopiesOf(renditions, files, copies) ==
  Matched(renditions, [n \in DOMAIN renditions |-> files[renditions[n]]], copies)

\* The file each of those renditions answers for: <<rendition, file>>.
Answered(pairs, files, copies) ==
  Matched([n \in DOMAIN pairs |-> pairs[n][1]], [n \in DOMAIN pairs |-> copies[pairs[n][2]]], files)

\* The handover's list: <<asset, rendition>>.
Handover(pairs, files, copies) ==
  {<<files[d[2]].asset, d[1]>> : d \in {a \in Range(Answered(pairs, files, copies)) : files[a[2]].asset # "none"}}
=============================================================================
