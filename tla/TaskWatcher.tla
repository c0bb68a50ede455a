---------------------------- MODULE TaskWatcher ----------------------------
(***************************************************************************)
(* internal/tasks/watcher.go: the goroutine of Run, which re-reads the     *)
(* active file after every inotify event and reports the phases it has not *)
(* reported yet, and the goroutines of watchMigrationSynced, which poll    *)
(* the log of one migration each.  They share the map of upidStates (under *)
(* a mutex) and the bounded channel out, which runWatcher receives from.   *)
(*                                                                         *)
(* Lines that parseAll skips (blank, unparsable, of a worker type that is  *)
(* not mapped or of a kind that is not included) change nothing and have   *)
(* no place here: Tasks are the tasks that are published.                  *)
(***************************************************************************)
EXTENDS ActiveFile, FiniteSets

CONSTANTS
  Tasks,        \* the tasks whose worker type and kind are published
  Migrations,   \* those of worker type qmigrate, which also get a poller
  Pollers,      \* goroutines of watchMigrationSynced alive at the same time
  NoTask,       \* the task of a poller that is not running
  OutCap,       \* capacity of the channel out, 256 in NewWatcher
  Burst,        \* the most inotify events a change of the file queues
  InPlace,      \* is the active file truncated and rewritten, or replaced?
  Faults,       \* can inotify or the reading of the file report an error?
  MaxRestarts   \* bound on the restarts of the daemon

ASSUME WatcherAssumption == /\ Migrations \subseteq Tasks
                            /\ NoTask \notin Tasks
                            /\ OutCap \in Nat \ {0}
                            /\ Burst \in Nat \ {0}
                            /\ InPlace \in BOOLEAN
                            /\ Faults \in BOOLEAN
                            /\ MaxRestarts \in Nat

VARIABLES
  \* PVE
  file,         \* file[t]: what the active file says of t, once written
  writing,      \* is the file truncated or half written?
  marked,       \* migrations whose log contains migrationSyncedMarker
  \* the goroutine of Run
  wpc,          \* "boot", "initial", "select", "scan" or "exited"
  notified,     \* number of relevant events queued in fw.Events
  pending,      \* has the debounce timer been set?
  view,         \* what the scan in progress read
  batch,        \* the lines of view that parseAll has not come to
  todo,         \* the events of the current line that are still to be sent
  \* known: the upidStates.  A missing entry reads as three false flags and no
  \* entry is ever stored without a flag, so the flags say what is in the map.
  started, finished, synced,
  \* the goroutines of watchMigrationSynced
  pollPc,       \* "idle", "ticking", "reading", "found" or "sending"
  pollTask,
  out,          \* the channel: events [task, phase]
  \* history
  restarts,
  unread,       \* has the file changed since the last scan read it?
  misread,      \* the tasks whose line was read otherwise than it was, by a scan
                \* since the daemon started
  trace,        \* trace[t]: phases sent for t since the daemon started
  delivered     \* delivered[t]: phases of t received in any life of the daemon

pve      == <<file, writing, marked>>
known    == <<started, finished, synced>>
scanning == <<view, batch, todo, misread>>
polling  == <<pollPc, pollTask>>
channel  == <<out, trace, delivered>>
vars == <<pve, wpc, notified, pending, scanning, known, polling, channel,
          restarts, unread>>

Events == [task : Tasks, phase : Phases]

Event(t, p) == [task |-> t, phase |-> p]

\* Phases sent for t since the daemon started.
Announced(t) == {trace[t][i] : i \in DOMAIN trace[t]}

Known == started \cup finished \cup synced

\* The tasks of which every scan since then saw what the file says.
Faithful == Tasks \ misread

Watching == wpc \notin {"boot", "exited"}
-----------------------------------------------------------------------------
\* The daemon starts on a node where tasks may be in any state.
Init == /\ file \in [Tasks -> LineStates]
        /\ writing = FALSE
        /\ marked \in SUBSET {t \in Migrations : file[t] # "future"}
        /\ wpc = "boot" /\ notified = 0 /\ pending = FALSE
        /\ view = file /\ batch = {} /\ todo = {}
        /\ started = {} /\ finished = {} /\ synced = {}
        /\ pollPc = [p \in Pollers |-> "idle"]
        /\ pollTask = [p \in Pollers |-> NoTask]
        /\ out = <<>>
        /\ restarts = 0
        /\ unread = TRUE
        /\ misread = {}
        /\ trace = [t \in Tasks |-> <<>>]
        /\ delivered = [t \in Tasks |-> {}]

(* PVE: rewrites of the active file, and the log of a migration. *)

\* inotify queues events for a change, once the watches are in place.
Changed == /\ unread' = TRUE
           /\ IF Watching THEN \E n \in 1..Burst : notified' = notified + n
                          ELSE UNCHANGED notified

ActiveChange(t) ==
  /\ ~writing
  /\ \E s \in After(file[t]) : file' = [file EXCEPT ![t] = s]
  /\ writing' = InPlace
  /\ Changed
  /\ UNCHANGED <<marked, wpc, pending, scanning, known, polling, channel,
                 restarts>>

EndWrite == /\ writing
            /\ writing' = FALSE
            /\ Changed
            /\ UNCHANGED <<file, marked, wpc, pending, scanning, known, polling,
                           channel, restarts>>

\* The migration logs that the target has caught up.
LogMarker(t) ==
  /\ file[t] = "running" /\ t \notin marked
  /\ marked' = marked \cup {t}
  /\ UNCHANGED <<file, writing, wpc, notified, pending, scanning, known,
                 polling, channel, restarts, unread>>

(* Run *)

AddWatches == /\ wpc = "boot"
              /\ wpc' = "initial"
              /\ UNCHANGED <<pve, notified, pending, scanning, known, polling,
                             channel, restarts, unread>>

\* Mutant: the event is consumed without setting the timer.
HandleNotifyUnset ==
  /\ wpc = "select" /\ notified > 0
  /\ notified' = notified - 1
  /\ UNCHANGED <<pve, wpc, pending, scanning, known, polling, channel, restarts,
                 unread>>

\* One event is taken from fw.Events; a timer that is set is not set again.
HandleNotify ==
  /\ wpc = "select" /\ notified > 0
  /\ notified' = notified - 1
  /\ pending' = TRUE
  /\ UNCHANGED <<pve, wpc, scanning, known, polling, channel, restarts, unread>>

\* What a line can be read as while the file is being rewritten.
TornReads(s) == {s} \cup IF s \in Listed THEN {"lost"} \cup CutLine(s) ELSE {}

\* Reading the file while it is being rewritten can give some of its lines, the
\* last one cut.
Views ==
  IF writing
    THEN {v \in [Tasks -> LineStates] :
            /\ \A t \in Tasks : v[t] \in TornReads(file[t])
            /\ Cardinality({t \in Tasks : v[t] \notin {file[t], "lost"}}) <= 1}
    ELSE {file}

\* scan opens and reads the file.
ReadActive == /\ wpc' = "scan"
              /\ view' \in Views
              /\ batch' = {t \in Tasks : view'[t] \in Listed}
              /\ unread' = FALSE
              /\ misread' = misread \cup {t \in Tasks : view'[t] # file[t]}
              /\ UNCHANGED <<pve, notified, todo, known, polling, channel,
                             restarts>>

InitialScan == wpc = "initial" /\ ReadActive /\ UNCHANGED pending

FireDebounce == wpc = "select" /\ pending /\ pending' = FALSE /\ ReadActive

\* Mutant: a line reports its start or else its result, not both.
ParseLineElse(t) ==
  LET emitStart == t \notin started
      emitEnd   == ~emitStart /\ view[t] \in Ended /\ t \notin finished
  IN  /\ wpc = "scan" /\ todo = {} /\ t \in batch
      /\ batch' = batch \ {t}
      /\ started' = started \cup {t}
      /\ finished' = IF emitEnd THEN finished \cup {t} ELSE finished
      /\ todo' = {Event(t, p) : p \in (IF emitStart THEN {"started"} ELSE {}) \cup
                                      (IF emitEnd THEN {Outcome(view[t])} ELSE {})}
      /\ UNCHANGED <<pve, wpc, notified, pending, view, misread, synced, polling,
                     channel, restarts, unread>>

\* Mutant: the entry is stored before its finished flag is set.
ParseLineEndUnset(t) ==
  LET emitStart == t \notin started
      emitEnd   == view[t] \in Ended /\ t \notin finished
  IN  /\ wpc = "scan" /\ todo = {} /\ t \in batch
      /\ batch' = batch \ {t}
      /\ started' = started \cup {t}
      /\ todo' = {Event(t, p) : p \in (IF emitStart THEN {"started"} ELSE {}) \cup
                                      (IF emitEnd THEN {Outcome(view[t])} ELSE {})}
      /\ UNCHANGED <<pve, wpc, notified, pending, view, misread, finished, synced,
                     polling, channel, restarts, unread>>

\* parseAll takes the next line: the flags are set before anything is sent.
ParseLine(t) ==
  LET emitStart == t \notin started
      emitEnd   == view[t] \in Ended /\ t \notin finished
  IN  /\ wpc = "scan" /\ todo = {} /\ t \in batch
      /\ batch' = batch \ {t}
      /\ started' = started \cup {t}
      /\ finished' = IF emitEnd THEN finished \cup {t} ELSE finished
      /\ todo' = {Event(t, p) : p \in (IF emitStart THEN {"started"} ELSE {}) \cup
                                      (IF emitEnd THEN {Outcome(view[t])} ELSE {})}
      /\ UNCHANGED <<pve, wpc, notified, pending, view, misread, synced, polling,
                     channel, restarts, unread>>

\* Mutant: the channel grows instead of blocking.
SendUnbounded(e) == /\ out' = Append(out, e)
                    /\ trace' = [trace EXCEPT ![e.task] = Append(@, e.phase)]
                    /\ UNCHANGED delivered

\* A send on the channel blocks while it is full.
Send(e) == /\ Len(out) < OutCap
           /\ out' = Append(out, e)
           /\ trace' = [trace EXCEPT ![e.task] = Append(@, e.phase)]
           /\ UNCHANGED delivered

\* The goroutine of a QEMU migration starts with its started event.
SendStarted(t) ==
  /\ Event(t, "started") \in todo
  /\ Send(Event(t, "started"))
  /\ todo' = todo \ {Event(t, "started")}
  /\ IF t \in Migrations
       THEN \E p \in Pollers : /\ pollPc[p] = "idle"
                               /\ pollPc' = [pollPc EXCEPT ![p] = "ticking"]
                               /\ pollTask' = [pollTask EXCEPT ![p] = t]
       ELSE UNCHANGED polling
  /\ UNCHANGED <<pve, wpc, notified, pending, view, misread, batch, known,
                 restarts, unread>>

\* Mutant: the result does not wait for the start.
SendTerminalEarly(t, p) ==
  /\ Event(t, p) \in todo
  /\ Send(Event(t, p))
  /\ todo' = todo \ {Event(t, p)}
  /\ UNCHANGED <<pve, wpc, notified, pending, view, misread, batch, known,
                 polling, restarts, unread>>

SendTerminal(t, p) ==
  /\ Event(t, p) \in todo
  /\ Event(t, "started") \notin todo
  /\ Send(Event(t, p))
  /\ todo' = todo \ {Event(t, p)}
  /\ UNCHANGED <<pve, wpc, notified, pending, view, misread, batch, known,
                 polling, restarts, unread>>

\* Mutant: every terminated entry is deleted, seen or not.
CollectGarbageSeen ==
  /\ wpc = "scan" /\ todo = {} /\ batch = {}
  /\ wpc' = "select"
  /\ started' = started \ finished /\ finished' = {} /\ synced' = synced \ finished
  /\ UNCHANGED <<pve, notified, pending, scanning, polling, channel, restarts,
                 unread>>

\* Mutant: nothing is deleted when the scan saw no line at all.
CollectGarbageUnlessEmpty ==
  LET dead == {t \in finished : /\ view[t] \notin Listed
                                /\ \E u \in Tasks : view[u] \in Listed}
  IN  /\ wpc = "scan" /\ todo = {} /\ batch = {}
      /\ wpc' = "select"
      /\ started' = started \ dead
      /\ finished' = finished \ dead
      /\ synced' = synced \ dead
      /\ UNCHANGED <<pve, notified, pending, scanning, polling, channel,
                     restarts, unread>>

\* Entries of terminated tasks that the scan did not see are deleted.
CollectGarbage ==
  LET dead == {t \in finished : view[t] \notin Listed}
  IN  /\ wpc = "scan" /\ todo = {} /\ batch = {}
      /\ wpc' = "select"
      /\ started' = started \ dead
      /\ finished' = finished \ dead
      /\ synced' = synced \ dead
      /\ UNCHANGED <<pve, notified, pending, scanning, polling, channel,
                     restarts, unread>>

\* An error of inotify, of the open or (after the lines read so far) of the
\* read ends Run; runWatcher only logs it, pollers and daemon go on.
WatcherFails == /\ Faults
                /\ wpc # "exited" /\ todo = {}
                /\ wpc' = "exited"
                /\ UNCHANGED <<pve, notified, pending, scanning, known, polling,
                               channel, restarts, unread>>

(* watchMigrationSynced: poller p of task pollTask[p] *)

Poll(p, from, to) == /\ pollPc[p] = from
                     /\ pollPc' = [pollPc EXCEPT ![p] = to]
                     /\ pollTask' = IF to = "idle"
                                      THEN [pollTask EXCEPT ![p] = NoTask]
                                      ELSE pollTask
                     /\ UNCHANGED <<pve, wpc, notified, pending, scanning,
                                    restarts, unread>>

\* A tick: the goroutine ends when the task is unknown or terminated.
PollCheck(p) ==
  /\ Poll(p, "ticking",
          IF pollTask[p] \in Known \ finished THEN "reading" ELSE "idle")
  /\ UNCHANGED <<known, channel>>

\* Mutant: a log without the marker ends the goroutine.
PollMissReturns(p) == Poll(p, "reading", "idle") /\ UNCHANGED <<known, channel>>

\* The log is not there, cannot be read or has no marker (yet).
PollMiss(p) == Poll(p, "reading", "ticking") /\ UNCHANGED <<known, channel>>

PollFind(p) == /\ pollTask[p] \in marked
               /\ Poll(p, "reading", "found")
               /\ UNCHANGED <<known, channel>>

\* Mutant: the entry that is written back is the one read before the log was.
PollMarkStale(p) ==
  /\ Poll(p, "found", IF pollTask[p] \in synced THEN "idle" ELSE "sending")
  /\ synced' = synced \cup {pollTask[p]}
  /\ finished' = finished \ {pollTask[p]}
  /\ UNCHANGED <<started, channel>>

\* The second critical section writes the entry back, whatever became of it.
PollMark(p) ==
  /\ Poll(p, "found", IF pollTask[p] \in synced THEN "idle" ELSE "sending")
  /\ synced' = synced \cup {pollTask[p]}
  /\ UNCHANGED <<started, finished, channel>>

PollSend(p) == /\ Poll(p, "sending", "idle")
               /\ Send(Event(pollTask[p], "synced"))
               /\ UNCHANGED known

(* The rest of the daemon *)

\* runWatcher receives an event.
Receive == /\ out # <<>>
           /\ out' = Tail(out)
           /\ delivered' = [delivered EXCEPT ![Head(out).task] =
                                               @ \cup {Head(out).phase}]
           /\ UNCHANGED <<pve, wpc, notified, pending, scanning, known, polling,
                          restarts, unread, trace>>

\* The daemon stops, at any point, and is started again: everything it kept in
\* memory is lost, the events in the channel included.
Restart == /\ restarts < MaxRestarts
           /\ restarts' = restarts + 1
           /\ wpc' = "boot" /\ notified' = 0 /\ pending' = FALSE
           /\ batch' = {} /\ todo' = {}
           /\ started' = {} /\ finished' = {} /\ synced' = {}
           /\ pollPc' = [p \in Pollers |-> "idle"]
           /\ pollTask' = [p \in Pollers |-> NoTask]
           /\ out' = <<>>
           /\ misread' = {}
           /\ trace' = [t \in Tasks |-> <<>>]
           /\ UNCHANGED <<pve, view, delivered, unread>>
-----------------------------------------------------------------------------
Run == \/ AddWatches \/ InitialScan \/ HandleNotify \/ FireDebounce
       \/ CollectGarbage
       \/ \E t \in Tasks : \/ ParseLine(t)
                           \/ SendStarted(t)
                           \/ \E p \in TerminalPhases : SendTerminal(t, p)

WatchMigrationSynced(p) == \/ PollCheck(p) \/ PollMiss(p) \/ PollFind(p)
                           \/ PollMark(p) \/ PollSend(p)

PVE == \/ \E t \in Tasks : ActiveChange(t)
       \/ \E t \in Migrations : LogMarker(t)
       \/ EndWrite

Next == \/ Run
        \/ \E p \in Pollers : WatchMigrationSynced(p)
        \/ PVE
        \/ Receive
        \/ WatcherFails
        \/ Restart

Spec == Init /\ [][Next]_vars

(* Each goroutine is scheduled, the timer fires although more events arrive, *)
(* and a log that is there is read after finitely many failures.  PVE owes   *)
(* nothing but the end of a rewrite it has begun, nothing makes the daemon   *)
(* restart.                                                                  *)
Fairness == /\ WF_vars(Run) /\ WF_vars(FireDebounce)
            /\ \A p \in Pollers : /\ WF_vars(WatchMigrationSynced(p))
                                  /\ SF_vars(PollFind(p))
            /\ WF_vars(Receive)
            /\ WF_vars(EndWrite)

FairSpec == Spec /\ Fairness
-----------------------------------------------------------------------------
TypeOK ==
  /\ file \in [Tasks -> LineStates]
  /\ writing \in BOOLEAN
  /\ marked \subseteq Migrations
  /\ wpc \in {"boot", "initial", "select", "scan", "exited"}
  /\ notified \in Nat /\ pending \in BOOLEAN
  /\ view \in [Tasks -> LineStates]
  /\ batch \subseteq Tasks
  /\ todo \subseteq Events
  /\ started \subseteq Tasks /\ finished \subseteq Tasks
  /\ synced \subseteq Migrations
  /\ pollPc \in [Pollers -> {"idle", "ticking", "reading", "found", "sending"}]
  /\ pollTask \in [Pollers -> Migrations \cup {NoTask}]
  /\ \A p \in Pollers : pollPc[p] = "idle" <=> pollTask[p] = NoTask
  /\ out \in Seq(Events) /\ Len(out) <= OutCap
  /\ restarts \in 0..MaxRestarts
  /\ unread \in BOOLEAN
  /\ misread \subseteq Tasks
  /\ trace \in [Tasks -> Seq(Phases)]
  /\ delivered \in [Tasks -> SUBSET Phases]

(* However scans, pollers and rewrites interleave, the first event of a task *)
(* is its started event (parseAll, watchMigrationSynced).                    *)
StartedFirst == \A t \in Tasks : trace[t] # <<>> => trace[t][1] = "started"

(* Within one life of the daemon no phase of a task is reported twice and a  *)
(* task has one outcome, although the entries that prevent it are deleted by *)
(* the garbage collection and written back by pollers: unless a scan since   *)
(* the start read the line of that very task while it was being rewritten.   *)
(* One that was missing in such a read is announced again by the next scan,  *)
(* although docs/EVENTS.md:72 knows of two events only.                      *)
OncePerLife ==
  \A t \in Faithful : \A i, j \in DOMAIN trace[t] :
    i # j => /\ trace[t][i] # trace[t][j]
             /\ ~({trace[t][i], trace[t][j]} \subseteq TerminalPhases)

(* What was sent of a task is what the active file shows or showed, unless   *)
(* its line was read while it was being rewritten; a torn read of one line   *)
(* harms no other task.                                                      *)
TruthfulOutcome ==
  \A t \in Faithful : \A x \in Announced(t) : file[t] \in Shows(x)

(* A success that was sent, in any life of the daemon, is true even if lines *)
(* are read while PVE rewrites them: a cut line (parseStatusTail, isOK) can  *)
(* only read as a failure.                                                   *)
SuccessIsTrue ==
  \A t \in Tasks : "finished" \in Announced(t) \cup delivered[t]
                    => file[t] \in Shows("finished")

(* A change of the active file that no scan has read yet always has a scan   *)
(* ahead of it: the watches are set before the initial scan, and the pending *)
(* flag is not cleared by anything but the scan it stands for.               *)
NoLostWakeup == wpc \in {"select", "scan"} /\ unread => notified > 0 \/ pending

\* Whatever else is said of a task whose line was misread, it follows started.
Misreport(t) ==
  /\ \E p \in Phases :
       /\ p = "started" \/ "started" \in Announced(t)
       /\ trace' = [trace EXCEPT ![t] = Append(@, p)]
  /\ UNCHANGED file

(* The events of a task are those of a task that is started, perhaps synced, *)
(* and ended once, as TaskLifecycle states it; only those of a task whose    *)
(* line was misread may be others.                                           *)
Lifecycle == INSTANCE TaskLifecycle
RefinesLifecycle ==
  /\ Lifecycle!Init
  /\ [][Lifecycle!Next \/ \E t \in misread : Misreport(t)]_<<file, trace>>

(* docs/EVENTS.md:73 says that finished or failed is sent when the matching  *)
(* entry shows a result: not when a line is read that is half written.       *)
OutcomeIsShown ==
  \A t \in Tasks : \A x \in Announced(t) \cap TerminalPhases : file[t] \in Shows(x)

(* A result that stays listed is reported to the rest of the daemon, with    *)
(* the right phase, even if the daemon restarts on the way (at least once),  *)
(* if the active file is replaced.                                           *)
EventuallyReported ==
  \A t \in Tasks : file[t] \in Ended ~> \/ file[t] \in Gone
                                        \/ Outcome(file[t]) \in delivered[t]

(* The same, of some outcome: holds also when lines are read while they are  *)
(* being rewritten in place; unless an error ends the watcher, without which *)
(* the daemon goes on (main.go:197).                                         *)
EventuallyEnded ==
  \A t \in Tasks : file[t] \in Ended ~> \/ file[t] \in Gone
                                        \/ delivered[t] \cap TerminalPhases # {}
                                        \/ [](wpc = "exited")

(* A migration whose log shows the marker while it is still running for long *)
(* enough is reported as synced, whatever the poller missed before, if the   *)
(* active file is replaced.                                                  *)
EventuallySynced ==
  \A t \in Migrations : t \in marked /\ file[t] = "running"
                          ~> file[t] # "running" \/ "synced" \in delivered[t]

\* The outcome of t was sent, and its line is no longer in the file.
Over(t) == file[t] \in Gone /\ Announced(t) \cap TerminalPhases # {}

(* The entry of a task without a poller is deleted once it is over.          *)
PlainTaskForgotten == \A t \in Tasks \ Migrations : Over(t) ~> t \notin Known

(* watcher.go:222 says of parseAll that it collects UPIDs that disappeared   *)
(* from the active file and were already terminated.                         *)
TerminatedForgotten == \A t \in Tasks : Over(t) ~> t \notin Known

(* docs/EVENTS.md:107 says of synced that it always precedes finished and    *)
(* failed for the same UPID.                                                 *)
SyncedPrecedesTerminal ==
  \A t \in Tasks : \A i, j \in DOMAIN trace[t] :
    trace[t][i] = "synced" /\ trace[t][j] \in TerminalPhases => i < j
=============================================================================
