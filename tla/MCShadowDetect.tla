--------------------------- MODULE MCShadowDetect ---------------------------
(***************************************************************************)
(* Instances of ShadowDetect for TLC: events that are a finding for the    *)
(* same entity, or no finding at all.                                      *)
(***************************************************************************)
EXTENDS ShadowDetect

CONSTANT d1

OneEntity == {<<d1>>}

NoisyEvents == {<<>>, <<d1>>}
=============================================================================
