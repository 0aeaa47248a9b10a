---------------------------- MODULE MCEnrichment ----------------------------
(* One address with a reputation and one without.                          *)
EXTENDS Enrichment

CONSTANTS Wan, Lan

MCIps == {Wan, Lan}
MCPublic == {Wan}
Both == {Abuse, Otx}
=============================================================================
