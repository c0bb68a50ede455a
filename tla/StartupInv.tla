----------------------------- MODULE StartupInv -----------------------------
(***************************************************************************)
(* The inductive invariant of Startup, with the route manager in it.       *)
(***************************************************************************)
EXTENDS Startup

\* The files are of one renewal, or the key is one ahead.
RenewalsAreBounded == keyFile <= MaxRenewals

\* A certificate that waits for its key was in its file.
LoadedWasThere == stage = "key" => cert \in 0..certFile

\* A daemon that was stopped does not run.
RunsIfWanted == stage # "down" => wanted

\* A daemon that is not up to the name of the cluster has none, and has missed
\* one attempt for each time that .members could not be read.
DetectCounts ==
  /\ stage \in {"down", "detect"} => cluster = "none"
  /\ stage = "detect" => /\ attempt \in 1..MaxAttempts
                         /\ ~late => pmxcfs = "named" /\ attempt <= failures + 1

(* A daemon that calls itself standalone was early, or the reads of .members *)
(* have failed as often as it tries.                                         *)
StandaloneIsExcused == cluster = "standalone" => late \/ failures >= MaxAttempts

UpInv == /\ TypeOK /\ KeyDescribesRoutes
         /\ StartupTypeOK /\ RenewalsAreBounded
         /\ RunsIfWanted /\ LoadedWasThere /\ PairIsOne
         /\ DetectCounts /\ StandaloneIsExcused
=============================================================================
