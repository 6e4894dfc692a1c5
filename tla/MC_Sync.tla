------------------------------- MODULE MC_Sync -------------------------------
(* Model values for checking Sync with TLC.                                 *)
EXTENDS Sync

CONSTANTS c1, c2, h1, h2, h3

TwoClients == {c1, c2}
ThreeHandles == {h1, h2, h3}
TwoHandles == {h1, h2}
====
