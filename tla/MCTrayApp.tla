------------------------------ MODULE MCTrayApp ------------------------------
(* TrayApp with two instances, two window handles, two nested modal loops, *)
(* one editor of hooks.json besides the tray and two overlapping hooks.    *)
EXTENDS TrayApp
=============================================================================
