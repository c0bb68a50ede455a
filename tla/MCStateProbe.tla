---------------------------- MODULE MCStateProbe ----------------------------
(* An instance of StateProbe for TLC, which takes its constants from the    *)
(* configuration.                                                           *)
EXTENDS StateProbe, TLC
=============================================================================
