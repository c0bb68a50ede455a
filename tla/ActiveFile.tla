----------------------------- MODULE ActiveFile -----------------------------
(***************************************************************************)
(* The vocabulary shared by the specifications of the task watcher: what   *)
(* /var/log/pve/tasks/active says of a task, written by PVE (external),    *)
(* and the phases the watcher reports (internal/tasks/watcher.go).         *)
(***************************************************************************)

EXTENDS ActiveLine

\* A task is not yet listed, listed without a result, listed with its result,
\* or no longer listed: with its result, or "lost" without ever showing one.
Ended      == {"OK", "ERR"}
Listed     == {"running"} \cup Ended
Gone       == {"goneOK", "goneERR", "lost"}
LineStates == {"future"} \cup Listed \cup Gone

\* The states a line can have next.  A UPID holds the start time and the PID of
\* its worker, so a task that is gone never returns.
After(s) == CASE s = "future"  -> {"running"}
              [] s = "running" -> {"OK", "ERR", "lost"}
              [] s = "OK"      -> {"goneOK"}
              [] s = "ERR"     -> {"goneERR"}
              [] OTHER         -> {}

\* What a line can read as that is read while it is being written.
CutLine(s) == IF s \in Listed
                THEN {Says(c) : c \in UNION {Cuts(tail) : tail \in Written(s)}}
                ELSE {}

TerminalPhases == {"finished", "failed"}
Phases         == {"started", "synced"} \cup TerminalPhases

\* Mutant: every result is reported as a success.
OutcomeUnchecked(s) == "finished"

\* The phase that reports a result: isOK accepts every status that begins with
\* OK, everything else is a failure.
Outcome(s) == IF s = "OK" THEN "finished" ELSE "failed"

\* The lines of which phase p is, or was, the truth.
Shows(p) == CASE p = "finished" -> {"OK", "goneOK"}
              [] p = "failed"   -> {"ERR", "goneERR"}
              [] OTHER          -> LineStates \ {"future"}
=============================================================================
