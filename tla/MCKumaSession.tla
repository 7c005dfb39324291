--------------------------- MODULE MCKumaSession ----------------------------
(* Constants of KumaSession for TLC.                                        *)
EXTENDS KumaSession

CONSTANTS root, leaf

MCGroupPath == <<root, leaf>>
=============================================================================
