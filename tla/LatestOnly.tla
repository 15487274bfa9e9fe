----------------------------- MODULE LatestOnly -----------------------------
(***************************************************************************)
(* What the latest-only publication contract promises                      *)
(* (src/src/publication_gate.rs): of all the work that was asked for, only *)
(* the newest that nothing cancelled may become visible, once; what is     *)
(* visible never goes back to older work.  Requests are numbered from 1.   *)
(***************************************************************************)
EXTENDS Naturals

VARIABLES
  asked,    \* the number of requests so far
  wanted,   \* the request that may still become visible, 0 for none
  visible   \* the request whose work is visible, 0 for none

Init == asked = 0 /\ wanted = 0 /\ visible = 0

Ask ==
  /\ asked' = asked + 1
  /\ wanted' = asked'
  /\ UNCHANGED visible

Cancel ==
  /\ wanted' = 0
  /\ UNCHANGED <<asked, visible>>

Show ==
  /\ wanted # 0
  /\ visible' = wanted
  /\ wanted' = 0
  /\ UNCHANGED asked

Next == Ask \/ Cancel \/ Show

Spec == Init /\ [][Next]_<<asked, wanted, visible>>
=============================================================================
