------------------------------- MODULE TaskFeed -------------------------------
(***************************************************************************)
(* What the phone promises about the host's task snapshots, whatever the   *)
(* connections between them do. The host publishes snapshots one after the *)
(* other, numbered here from 1. The phone shows none or one of those it    *)
(* was sent; it may skip some and it forgets what it shows when its        *)
(* process ends, but it never goes back to an earlier one.                 *)
(***************************************************************************)
EXTENDS Naturals

VARIABLES
  published,  \* the number of the last snapshot published
  showing,    \* the one the phone shows, 0 for none
  newest      \* the newest it has ever shown

vars == <<published, showing, newest>>

Init == published = 1 /\ showing = 0 /\ newest = 0

Publish == published' = published + 1 /\ UNCHANGED <<showing, newest>>

Show ==
  \E i \in 1..published :
    /\ newest <= i
    /\ showing' = i /\ newest' = i
    /\ UNCHANGED published

Forget == showing' = 0 /\ UNCHANGED <<published, newest>>

Next == Publish \/ Show \/ Forget

Spec == Init /\ [][Next]_vars
=============================================================================
