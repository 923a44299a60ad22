-------------------------- MODULE MCCloudLifecycle --------------------------
(* Constants of the model-checked instances of CloudLifecycle. *)
EXTENDS CloudLifecycle, TLC

Overdraft == -1

Interchangeable == Permutations(Users)
=============================================================================
