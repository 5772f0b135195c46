----------------------------- MODULE DCUPairMC -----------------------------
(* An instance of DCUPair for TLC. *)
EXTENDS DCUPair

Silent  == [loc |-> BadLoc, locValid |-> TRUE, versionOk |-> TRUE, health |-> "GO"]
Healthy == [Silent EXCEPT !.loc = 1]

\* The DCU of DUA is there all the time, that of DUB comes and goes.
There        == {Healthy}
ComesAndGoes == {Silent, Healthy}
=============================================================================
