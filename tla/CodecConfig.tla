------------------------------ MODULE CodecConfig ------------------------------
(***************************************************************************)
(* The parameter sets of a copied HEVC stream (_hevc_copy_args and what it *)
(* asks), and what FFmpeg's MP4 muxer makes of them.                       *)
(*                                                                         *)
(* A stream's extradata: form ("none", "annexb", "hvcC"), arrays, each the *)
(* type of its NAL units and the units, each its layer and its size; and   *)
(* cut, whether it ends before its arrays do.                              *)
(***************************************************************************)
EXTENDS Naturals, Sequences

ParameterSets == {"vps", "sps", "pps"}

\* What ffprobe's dump of it gives; nothing where it failed or is short.
CodecPrivate(extradata, dump) == IF dump = "whole" THEN {extradata} ELSE {}

\* Mutant of NamesSet: a unit of any layer counts.
NamesSetAny(unit) == unit.size >= 2

NamesSet(unit) == unit.size >= 2 /\ unit.layer = 0

\* The types a record has of the base layer.
NamedSets(record) ==
  {record.arrays[i].type : i \in {j \in DOMAIN record.arrays :
                                    \E k \in DOMAIN record.arrays[j].units : NamesSet(record.arrays[j].units[k])}}

HvccLacksParameterSets(record) ==
  record.form = "hvcC" /\ (record.cut \/ ~ ParameterSets \subseteq NamedSets(record))

ParameterSetsInBandOnly(extradata, dump) ==
  \E record \in CodecPrivate(extradata, dump) : HvccLacksParameterSets(record)

HevcCopy(extradata, dump) == IF ParameterSetsInBandOnly(extradata, dump) THEN "annexb" ELSE "straight"

\* The configuration the muxer writes: of an hvcC it is handed whole, its
\* sets of the base layer, or none; with no hvcC to rebuild, what it reads
\* in Annex B itself, be it the extradata or the first frame.
Written(copy, extradata, frame) ==
  LET sets == {extradata.arrays[i].type : i \in {j \in DOMAIN extradata.arrays :
                 \E k \in DOMAIN extradata.arrays[j].units :
                   extradata.arrays[j].units[k].size >= 2 /\ extradata.arrays[j].units[k].layer = 0}}
  IN IF copy = "annexb" \/ extradata.form = "none" THEN frame
     ELSE IF extradata.form = "annexb" THEN sets
     ELSE IF extradata.cut \/ ~ ParameterSets \subseteq sets THEN {} ELSE sets
================================================================================
