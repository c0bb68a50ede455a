--------------------------- MODULE MCTaskWatcher ---------------------------
(* Instances of TaskWatcher for TLC: m is a QEMU migration, v another task. *)
EXTENDS TaskWatcherInv, TLC

CONSTANTS m, v, p1, p2

OneOfEach == {m, v}
OneMigration == {m}
OnePlain  == {v}
None      == {}
OnePoller == {p1}
Two       == {p1, p2}
=============================================================================
