---------------------------- MODULE MCControlPlane ----------------------------
(* Instances of ControlPlane for TLC: one operation of each kind.           *)
EXTENDS ControlPlane, TLC

CoreOps == {CreateSandbox, CreatePreview}
TriggerOps == {TriggerJobSchedule}

CallerSymmetry == Permutations(Callers) \cup Permutations(Orgs)
=============================================================================
