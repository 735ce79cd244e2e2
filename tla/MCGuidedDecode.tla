-------------------------- MODULE MCGuidedDecode --------------------------
(* GuidedDecode with two requests.                                         *)
EXTENDS GuidedDecode, TLC

CONSTANTS r1, r2

MCRids == {r1, r2}
MCPrompts == {<<0>>, <<1>>}
=============================================================================
