--------------------------- MODULE MCLanProtocol ----------------------------
(* LanProtocol for TLC.                                                    *)
EXTENDS LanProtocol
=============================================================================
