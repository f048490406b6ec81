--------------------------------- MODULE Lists ---------------------------------
(***************************************************************************)
(* The lists the packager makes of those of something for which something  *)
(* holds, in their order (its comprehensions over streams, files and       *)
(* renditions).                                                            *)
(***************************************************************************)
EXTENDS Naturals, Sequences

\* What a sequence has at these places, in its order.
Kept(seq, places) ==
  LET kept[n \in 0 .. Len(seq)] ==
        IF n = 0 THEN <<>> ELSE IF n \in places THEN Append(kept[n - 1], seq[n]) ELSE kept[n - 1]
  IN kept[Len(seq)]

\* The places where a sequence has something for the first time.
Firsts(seq) == {n \in DOMAIN seq : \A m \in 1 .. n - 1 : seq[m] # seq[n]}

\* These places themselves, of a sequence of this length.
InOrder(places, length) == Kept([i \in 1 .. length |-> i], places)

\* The lists of a list, one after the other.
Concatenated(seqs) ==
  LET joined[n \in 0 .. Len(seqs)] == IF n = 0 THEN <<>> ELSE joined[n - 1] \o seqs[n]
  IN joined[Len(seqs)]
=============================================================================
