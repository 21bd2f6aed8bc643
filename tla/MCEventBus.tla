----------------------------- MODULE MCEventBus -----------------------------
(* Instances of EventBus for TLC.  Worker w0 is the engine's first worker,   *)
(* whose consumer name is random; w1 stands for the others.                  *)
EXTENDS EventBus
CONSTANTS w0, w1

TwoWorkers == {w0, w1}
OnlyOther == {w1}
=============================================================================
