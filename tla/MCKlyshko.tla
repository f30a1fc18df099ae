----------------------------- MODULE MCKlyshko -----------------------------
(***************************************************************************)
(* Values of the constants for model checking Klyshko.                     *)
(***************************************************************************)
EXTENDS Klyshko

NoVCP == {}
TheMaster == {Master}
TheOther == {1}

WhenDone == {"Completed", "Failed"}

PodsSucceed == {"Succeeded"}
PodsMayFail == {"Succeeded", "Failed"}

=============================================================================
