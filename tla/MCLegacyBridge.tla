--------------------------- MODULE MCLegacyBridge ---------------------------
(* LegacyBridge with two handlers that may overlap, a link of two          *)
(* addresses and an offer that allows two attempts.                        *)
EXTENDS LegacyBridge
=============================================================================
