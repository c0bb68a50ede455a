----------------------------- MODULE MCStartup -----------------------------
(* Instances of Startup for TLC. *)
EXTENDS Startup, TLC

CONSTANTS self, n1, n2

OneNode    == {self}
ThreeNodes == {self, n1, n2}
OneStatic  == {n2}
NoStatic   == {}
=============================================================================
