-------------------------------- MODULE MCPlans --------------------------------
(* Plans for TLC: two languages, three tracks of a kind. *)
EXTENDS Plans

\* Tags with and without a script or a region; one names no language, one its
\* region as no standard does.
Tagged == {Code("pt", <<>>), Code("pt", <<"BR">>), Code("zh", <<"Hans">>), Code("en", <<"UK">>),
           Code("en", <<>>), Code("und", <<>>)}
================================================================================
