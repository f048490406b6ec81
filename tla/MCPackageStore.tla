---------------------------- MODULE MCPackageStore ----------------------------
(* PackageStore for TLC. *)
EXTENDS PackageStore

\* What build_package leaves in the staging folder, sorted with hls last; an
\* extra has no trickplay, a film without subtitles no subs.
Entries == [subs |-> 1, trickplay |-> 2, hls |-> 3]
=============================================================================
