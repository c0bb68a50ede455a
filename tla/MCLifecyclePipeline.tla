------------------------ MODULE MCLifecyclePipeline ------------------------
(* Instances of LifecyclePipeline for TLC: m is a QEMU migration, v another *)
(* task.                                                                    *)
EXTENDS LifecyclePipeline, TLC

CONSTANTS m, v

OneMigration == {m}
TwoTasks     == {m, v}
=============================================================================
