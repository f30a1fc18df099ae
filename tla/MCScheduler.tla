---------------------------- MODULE MCScheduler ----------------------------
(***************************************************************************)
(* Values of the constants for model checking Scheduler: two types that    *)
(* can be generated, and one with two generators, which cannot.            *)
(***************************************************************************)
EXTENDS Scheduler, TLC

CONSTANTS j1, j2, j3

Types == {"bit", "mask", "triple"}
Generators == {"fake", "cowgear"}
TypesOfGenerator == ("fake" :> {"bit", "triple"}) @@ ("cowgear" :> {"mask", "triple"})
Thresholds == ("bit" :> 1) @@ ("mask" :> 3) @@ ("triple" :> 1)
Priorities == ("bit" :> 1) @@ ("mask" :> 2) @@ ("triple" :> 1)
Batches == ("bit" :> 1) @@ ("mask" :> 2) @@ ("triple" :> 1)
ThreeJobs == {j1, j2, j3}

=============================================================================
