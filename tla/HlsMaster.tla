------------------------------- MODULE HlsMaster -------------------------------
(***************************************************************************)
(* The master playlist: what hls.py measures of a media playlist           *)
(* (playlist_stats, _peak_bps), the names of a group (unique_names) and    *)
(* the bandwidth each variant advertises (build_master).                   *)
(*                                                                         *)
(* A segment is a record: d, its duration in halves of the playlist's      *)
(* target duration, and b, its size.                                       *)
(***************************************************************************)
EXTENDS Integers, Sequences, FiniteSets, SequencesExt, FiniteSetsExt

Duration(segs, from, to) == FoldFunction(+, 0, [k \in from .. to |-> segs[k].d])
Bytes(segs, from, to) == FoldFunction(+, 0, [k \in from .. to |-> segs[k].b])

\* Bits a unit of time, to the nearest.
Rate(bytes, duration) == (16 * bytes + duration) \div (2 * duration)

AvgRate(segs) ==
  LET d == Duration(segs, 1, Len(segs))
  IN IF d > 0 THEN Rate(Bytes(segs, 1, Len(segs)), d) ELSE 0

\* The largest single segment's.
SegmentRate(segs) == Max({0} \cup {Rate(segs[i].b, segs[i].d) : i \in {j \in DOMAIN segs : segs[j].d > 0}})

\* From each segment on, the window grows until it is too long.
PeakRate(segs) ==
  LET ends(i) == {k \in i .. Len(segs) : Duration(segs, i, k) \in 1 .. 3}
      best == Max({0} \cup UNION {{Rate(Bytes(segs, i, k), Duration(segs, i, k)) : k \in ends(i)} :
                                   i \in DOMAIN segs})
  IN IF best # 0 THEN best ELSE SegmentRate(segs)

\* What a media playlist is said to need: its peak, else its average.
Stats(segs) == IF PeakRate(segs) # 0 THEN PeakRate(segs) ELSE AvgRate(segs)

(***************************************************************************)
(* A name is a tuple: what it reads, then each number in brackets that     *)
(* ends it. The second of a name is its name with 2.                       *)
(***************************************************************************)
\* The mutant of UniqueNames that doesn't count on.
UniqueNamesOfTwo(names) ==
  [i \in DOMAIN names |->
     IF \E j \in 1 .. i - 1 : names[j] = names[i] THEN Append(names[i], 2) ELSE names[i]]

UniqueNames(names) ==
  [i \in DOMAIN names |->
     LET n == Cardinality({j \in 1 .. i : names[j] = names[i]})
     IN IF n = 1 THEN names[i] ELSE Append(names[i], n)]

(***************************************************************************)
(* The variants: each video in each audio group, with the bandwidth of the *)
(* video, the group's highest and the subtitles' highest.  Rates here are  *)
(* whole numbers, the stats the renditions carry.                          *)
(***************************************************************************)
Peak(stats) == Max({0} \cup {stats[i] : i \in DOMAIN stats})

\* The mutant of Bandwidth that leaves the subtitles out.
BandwidthOfMedia(video, group, subtitles) == video + Peak(group)

Bandwidth(video, group, subtitles) == video + Peak(group) + Peak(subtitles)

\* groups is empty for a package without audio: its variants name none.
Variants(videos, groups, subtitles) ==
  LET listed == IF groups = <<>> THEN <<<<>>>> ELSE groups
  IN {[group |-> g, video |-> v, bandwidth |-> Bandwidth(videos[v], listed[g], subtitles)] :
        g \in DOMAIN listed, v \in DOMAIN videos}
=============================================================================
