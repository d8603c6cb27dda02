---------------------------- MODULE MCProcessingLoop ----------------------------
(***************************************************************************)
(* ProcessingLoop for TLC: three modules, one of them with two inputs, in    *)
(* every wiring; and that a cycle always ends.                              *)
(***************************************************************************)
EXTENDS ProcessingLoop, TLC

CONSTANTS a, b, c, a1, b1, b2, c1

ThreeModules == <<a, b, c>>
TheirInputs == a :> <<a1>> @@ b :> <<b1, b2>> @@ c :> <<c1>>

\* Fairness: execute_cycle() runs on until it returns.
FairSpec == Spec /\ WF_vars(InCycle)

\* Every cycle ends, whatever the modules' connections are and whatever throws.
CycleEnds == phase # "idle" ~> phase = "idle"
=============================================================================
