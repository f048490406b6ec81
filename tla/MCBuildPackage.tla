---------------------------- MODULE MCBuildPackage ----------------------------
(* BuildPackage for TLC: BP_build (three subtitles or fonts, two failures). *)
EXTENDS BuildPackage
=============================================================================
