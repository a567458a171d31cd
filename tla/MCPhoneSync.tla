----------------------------- MODULE MCPhoneSync -----------------------------
(* PhoneSync with one task and the connections one phone opens in turn:    *)
(* the second may come up while the first is still being taken down.       *)
EXTENDS PhoneSync
=============================================================================
