--------------------------- MODULE TaskWatcherInv ---------------------------
(***************************************************************************)
(* The inductive invariant of TaskWatcher, whether the active file is      *)
(* replaced or rewritten in place.  It says what the flags of an entry are *)
(* worth while its events are on their way and after it was deleted: part  *)
(* of it of every task, most of it only of those never misread.            *)
(***************************************************************************)
EXTENDS TaskWatcher

\* The states a line can have at or after s.
Later(s) == CASE s = "future"  -> LineStates
              [] s = "running" -> LineStates \ {"future"}
              [] s = "OK"      -> {"OK", "goneOK"}
              [] s = "ERR"     -> {"ERR", "goneERR"}
              [] OTHER         -> {s}

HasResult == Ended \cup {"goneOK", "goneERR"}

\* A file that is replaced is never read half written.
ReplacedIsWhole == ~InPlace => ~writing /\ misread = {}

\* The file only moves on after a scan has read it.
ViewIsPast == /\ wpc = "scan" => \A t \in Faithful : file[t] \in Later(view[t])
              /\ \A t \in batch : view[t] \in Listed

\* finished is set for results that were seen, and only then.
FlagsAreTrue ==
  /\ finished \subseteq started
  /\ \A t \in finished \ misread : /\ file[t] \in HasResult
                                   /\ wpc = "scan" => view[t] \in HasResult

\* The events still to be sent are the ones the flags already promise.
TodoIsDue ==
  /\ wpc # "scan" => todo = {}
  /\ \A e \in todo :
       /\ e.task \in started /\ view[e.task] \in Listed
       /\ \/ e.phase = "started"
          \/ /\ e.phase \in TerminalPhases
             /\ e.phase = Outcome(view[e.task])
             /\ view[e.task] \in Ended
             /\ e.task \in finished

\* And they were not sent before.
TodoIsNew ==
  \A e \in todo : e.task \notin misread =>
    Announced(e.task) \cap (IF e.phase = "started" THEN Phases ELSE TerminalPhases) = {}

\* A flag that is set was announced or is about to be.
StartedIsTold ==
  \A t \in started : "started" \in Announced(t) \/ Event(t, "started") \in todo

\* A flag that is missing was never announced, unless the task is gone for good.
FlagsMatchTrace ==
  \A t \in Faithful :
    /\ t \in started /\ Announced(t) \cap TerminalPhases # {} => t \in finished
    /\ t \notin started /\ Announced(t) # {}
         => file[t] \in Gone /\ (wpc = "scan" => view[t] \in Gone)

\* A poller works for a migration that was announced and not yet synced, and
\* is the only one to do so.
PollersAreExclusive ==
  \A p \in Pollers : pollPc[p] # "idle" =>
    /\ "started" \in Announced(pollTask[p])
    /\ pollTask[p] \notin misread =>
         /\ "synced" \notin Announced(pollTask[p])
         /\ \A q \in Pollers \ {p} : pollTask[q] # pollTask[p]

IInv == /\ TypeOK
        /\ ReplacedIsWhole /\ ViewIsPast
        /\ FlagsAreTrue
        /\ TodoIsDue /\ TodoIsNew
        /\ StartedIsTold /\ FlagsMatchTrace
        /\ PollersAreExclusive
        /\ StartedFirst /\ OncePerLife /\ TruthfulOutcome
=============================================================================
