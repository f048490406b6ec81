--------------------------------- MODULE Hdr10 ---------------------------------
(***************************************************************************)
(* HDR10 static metadata (hdr10.py): where it is read, and its boxes       *)
(* written into the sample entry of an init segment.                       *)
(*                                                                         *)
(* An init segment is a sequence of levels, the chain of boxes from moov   *)
(* to the sample entry, outermost first: each its header (8 or 16 bytes),  *)
(* the size it declares (0: to the end of the file) and the bytes of it    *)
(* before and after the next one; and children, the boxes in the sample    *)
(* entry, each a kind and a size.  media says it holds media data or       *)
(* points into it; one says its stsd holds one HEVC entry of a video track.*)
(***************************************************************************)
EXTENDS Integers, Sequences, FiniteSets

CONSTANTS
  MaxSize,       \* what a 32-bit size can say
  CHROMA_UNITS,  \* of a chromaticity in 1, and the most its field holds
  MaxChroma,
  LUMA_UNITS,    \* of a luminance in 1, and the most its field holds
  MaxLuma,
  MaxLight       \* the most a content light level's field holds

(***************************************************************************)
(* Where it is found.  An entry of ffprobe's side data is its kind and     *)
(* what it says: of a mastering display the values of its ten fields, here *)
(* of one chromaticity and one luminance, each a rational <<num, den>> or  *)
(* <<>> for none; of a content light level its two numbers, -1 for what is *)
(* none.  A value that may be none is a set.                               *)
(***************************************************************************)

Kinds == {"mdcv", "clli"}

Ratio(value) ==
  IF value = <<>> THEN {} ELSE IF value[2] = 0 \/ value[1] < 0 THEN {} ELSE {value}

\* The mutant of UnitsOf that rounds down.
UnitsDown(value, units, most) == {n \in {(q[1] * units) \div q[2] : q \in Ratio(value)} : n \in 0 .. most}

\* In whole units, half up, where the field holds it.
UnitsOf(value, units, most) ==
  {n \in {(2 * q[1] * units + q[2]) \div (2 * q[2]) : q \in Ratio(value)} : n \in 0 .. most}

\* Every field, or none.
Mastering(entry) ==
  {<<c, l>> : c \in UnitsOf(entry.chroma, CHROMA_UNITS, MaxChroma), l \in UnitsOf(entry.luma, LUMA_UNITS, MaxLuma)}

LightLevel(entry) == {v \in {entry.light} : \A k \in DOMAIN v : v[k] \in 0 .. MaxLight}

SaidBy(entry) ==
  [mdcv |-> IF entry.kind = "mdcv" THEN Mastering(entry) ELSE {},
   clli |-> IF entry.kind = "clli" THEN LightLevel(entry) ELSE {}]

\* The first of each kind that can be read.
FirstSaid(said) ==
  [kind \in Kinds |->
     LET some == {i \in DOMAIN said : said[i][kind] # {}}
     IN IF some = {} THEN {} ELSE said[CHOOSE i \in some : \A j \in some : i <= j][kind]]

FromSideData(entries) == FirstSaid([i \in DOMAIN entries |-> SaidBy(entries[i])])

\* Of the first frames, each a list of entries.
FirstFrames(frames) == FirstSaid([i \in DOMAIN frames |-> FromSideData(frames[i])])

\* Each kind from the stream's side data, else from its first frames.
OfOriginal(stream, frames) == FirstSaid(<<FromSideData(stream), FirstFrames(frames)>>)

(***************************************************************************)
(* Sequences of boxes.                                                     *)
(***************************************************************************)

\* Those of some kinds, in their order.
Of(boxes, kinds) ==
  LET some[n \in 0 .. Len(boxes)] ==
        IF n = 0 THEN <<>> ELSE IF boxes[n].kind \in kinds THEN Append(some[n - 1], boxes[n]) ELSE some[n - 1]
  IN some[Len(boxes)]

SizeOf(boxes) ==
  LET sum[n \in 0 .. Len(boxes)] == IF n = 0 THEN 0 ELSE sum[n - 1] + boxes[n].size
  IN sum[Len(boxes)]

\* The boxes of what was found, in FFmpeg's order.
BoxesOf(found) ==
  Of(<<[kind |-> "clli", size |-> 12], [kind |-> "mdcv", size |-> 32]>>, {kind \in Kinds : found[kind] # {}})

\* What the box at a level really holds, in a chain whose innermost box
\* holds children: what is there of each level in it, and the children.
RealSize(init, level) ==
  LET own == [k \in DOMAIN init.levels |->
                [size |-> init.levels[k].header + init.levels[k].before + init.levels[k].after]]
  IN SizeOf(SubSeq(own, level, Len(own))) + SizeOf(init.children)

\* A reader finds every box where its parent says: it declares its real size,
\* or runs to the end of a parent that holds nothing after it.
AddsUp(init) ==
  \A k \in DOMAIN init.levels :
    IF init.levels[k].declared = 0
    THEN \A j \in DOMAIN init.levels : j = k - 1 => init.levels[j].after = 0
    ELSE init.levels[k].declared = RealSize(init, k)

(***************************************************************************)
(* insert_boxes.                                                           *)
(***************************************************************************)

Held(init) == {init.children[i].kind : i \in DOMAIN init.children}

\* Those of the metadata's boxes the sample entry doesn't hold yet.
Missing(init, boxes) == Of(boxes, Kinds \ Held(init))

\* The mutant of Grown that grows a box that runs to the end of the file.
GrownAnyway(level, by) == [level EXCEPT !.declared = @ + by]

Grown(level, by) == IF level.declared = 0 THEN level ELSE [level EXCEPT !.declared = @ + by]

\* Where the boxes go: after the first colr, else at the end.
Place(init) ==
  LET colrs == {i \in DOMAIN init.children : init.children[i].kind = "colr"}
  IN IF colrs = {} THEN Len(init.children) ELSE CHOOSE i \in colrs : \A j \in colrs : i <= j

\* An init segment the boxes can go into.
Takes(init, boxes) ==
  /\ ~ init.media /\ init.one
  /\ \A k \in DOMAIN init.levels :
       init.levels[k].header = 8 =>
         \/ Missing(init, boxes) = <<>> \/ init.levels[k].declared = 0
         \/ init.levels[k].declared + SizeOf(Missing(init, boxes)) <= MaxSize

Inserted(init, boxes) ==
  LET add == Missing(init, boxes)  at == Place(init)
  IN [levels |-> [k \in DOMAIN init.levels |-> Grown(init.levels[k], SizeOf(add))],
      children |-> SubSeq(init.children, 1, at) \o add \o SubSeq(init.children, at + 1, Len(init.children)),
      media |-> init.media, one |-> init.one]

\* write_into: an init segment that can't take them stays as it was.
WriteInto(init, boxes) == IF Takes(init, boxes) THEN Inserted(init, boxes) ELSE init
=============================================================================
