----------------------------- MODULE MCPairing -----------------------------
(* Pairing on a small instance, and the mutants that show what each        *)
(* property can see. The monitor's steps interleave with two or three      *)
(* pairings, with revocations and with restarts.                           *)
EXTENDS Pairing
=============================================================================
